---- MODULE Spec2Model ----
(***************************************************************************)
(* Trajectory analysis workers of records-backend-go (scripts/).           *)
(*                                                                         *)
(* The model covers the batch runner (TaskExecutor, IncrementalAnalyzer),  *)
(* the transport mode worker, the two stay detection workers and the trip  *)
(* construction worker, over a small SQLite store: the connection's view   *)
(* of the tables (db) and the committed tables (durable).                  *)
(*                                                                         *)
(* Geometry: every point lies on one meridian, pos is its position in      *)
(* metres along it, so the haversine distance of two points is the         *)
(* absolute difference of their positions.  Speeds are compared exactly    *)
(* by cross-multiplication (km/h = 3.6 * metres / seconds).                *)
(***************************************************************************)
EXTENDS Integers, Sequences, FiniteSets, TLC

\* ---------------------------------------------------------------- bounds
NPoints == 3        \* points in the store
MaxRuns == 2        \* runs of one stage in a row
MaxFaults == 1      \* injected database errors per behaviour
MaxStays == 3       \* rows of stay_segments given to a stand-alone trip run

\* ------------------------------------------------------------- constants
NoRef == 0                    \* SQL NULL of an integer reference column
DefaultMinDuration == 7200    \* params.get('min_duration_s', 7200)
DefaultSpatialRadius == 100   \* params.get('spatial_radius_m', 100)
DensityMinDuration == 1800    \* self.min_duration_s = 30 * 60
DensityEps == 200             \* self.spatial_eps_m
DensityDegreeDivisor == 111000 \* eps_degrees = spatial_eps_m / 111000
DensityMinSamples == 3        \* self.min_samples
DensityMaxTimeGap == 3600     \* self.max_time_gap_s

Ids == 1..NPoints
PosSet == {0, 50, 100000}
GapSet == {1800, 7200}
Stages == {"outlier", "mode", "stay", "gap", "density"}
TaskTypes == {"INCREMENTAL", "FULL_RECOMPUTE"}
DetectionModes == {"spatial", "admin", "both"}
MinDurationParams == {NoRef, 3600}   \* NoRef: min_duration_s absent from params

VARIABLES
    stage,        \* which worker class is run
    task,         \* the analysis_tasks row: task_type, total_points, params
    batch_size,   \* IncrementalAnalyzer.batch_size
    store,        \* immutable columns of the point table, by point id
    db,           \* the tables as the open connection sees them
    durable,      \* the committed tables
    conn,         \* self.conn: "none", "open" or "closed"
    pc,           \* position of the worker process
    processed,    \* run(): processed
    failed,       \* run(): failed
    batch,        \* run(): points (ids, in fetch order)
    batch_failed, \* run(): batch_failed
    tstays,       \* TripConstructionWorker.run(): stays
    ti,           \* TripConstructionWorker.run(): i
    faults,       \* database errors injected so far
    runs,         \* runs of the stage finished so far
    hist          \* history: what the runs did (for the properties only)

vars == <<stage, task, batch_size, store, db, durable, conn, pc, processed,
          failed, batch, batch_failed, tstays, ti, faults, runs, hist>>

\* --------------------------------------------------------------- helpers
Abs(x) == IF x < 0 THEN -x ELSE x

Max2(a, b) == IF a >= b THEN a ELSE b

Range(s) == {s[i] : i \in 1..Len(s)}

RECURSIVE SumSeq(_)
SumSeq(s) == IF s = <<>> THEN 0 ELSE Head(s) + SumSeq(Tail(s))

Last(s) == s[Len(s)]

\* geocoder collaborator: the administrative labels are a function of the
\* position (pre-populated columns province / county of the point table)
\* (no province label, "NULL", from 900 km on)
ProvinceOf(pos) ==
    IF pos >= 900000 THEN "NULL" ELSE IF pos >= 100000 THEN "P2" ELSE "P1"

CountyOf(pos) == IF pos >= 100000 THEN "K2" ELSE "K1"

\* calculate_distance on one meridian
Dist(p, q) == Abs(p - q)

\* ORDER BY dataTime over a set of point ids (dataTime is unique in the store)
RECURSIVE OrderByDataTime(_)
OrderByDataTime(S) ==
    IF S = {} THEN <<>>
    ELSE LET m == CHOOSE i \in S : \A j \in S : store[i].dataTime <= store[j].dataTime
         IN  <<m>> \o OrderByDataTime(S \ {m})

\* LIMIT n
Limit(s, n) == IF Len(s) <= n THEN s ELSE SubSeq(s, 1, n)

\* cursor.lastrowid of an INSERT into a table held as a sequence of rows
RECURSIVE MaxId(_)
MaxId(rows) == IF rows = <<>> THEN 0 ELSE Max2(Head(rows).id, MaxId(Tail(rows)))

LastRowId(rows) == MaxId(rows) + 1

\* ------------------------------------------------ transport mode worker
\* speed = max(recorded speed, calculate_speed(prev, point)), compared with a
\* threshold k (km/h).  calculate_speed is 3.6 * metres / seconds, and 0 when
\* the two timestamps are equal; without a previous point only the recorded
\* speed counts.
HasCalc(id, prev) == prev # NoRef /\ store[id].dataTime # store[prev].dataTime

CalcNum(id, prev) == 36 * Dist(store[prev].pos, store[id].pos)

CalcDen(id, prev) == 10 * (store[id].dataTime - store[prev].dataTime)

SpeedGE(id, prev, k) ==
    \/ store[id].speed >= k
    \/ HasCalc(id, prev) /\ CalcNum(id, prev) >= k * CalcDen(id, prev)

SpeedLE(id, prev, k) ==
    /\ store[id].speed <= k
    /\ HasCalc(id, prev) => CalcNum(id, prev) <= k * CalcDen(id, prev)

SpeedLT(id, prev, k) ==
    /\ store[id].speed < k
    /\ HasCalc(id, prev) => CalcNum(id, prev) < k * CalcDen(id, prev)

\* classify_point: crosses_province = prev_province and province and
\* prev_province != province (a missing label or no previous point is falsy)
CrossesProvince_MissingLabelCrosses(id, prev) ==
    prev # NoRef /\ ProvinceOf(store[prev].pos) # ProvinceOf(store[id].pos)

CrossesProvince(id, prev) ==
    /\ prev # NoRef
    /\ ProvinceOf(store[prev].pos) # "NULL"
    /\ ProvinceOf(store[id].pos) # "NULL"
    /\ ProvinceOf(store[prev].pos) # ProvinceOf(store[id].pos)

\* classify_point with rule 3 (CAR) tried before rule 2 (TRAIN / fast CAR)
ClassifyPoint_CarRuleFirst(id, prev) ==
    IF store[id].altitude > 1000 /\ SpeedGE(id, prev, 200) /\ SpeedLE(id, prev, 1000)
    THEN [mode |-> "FLIGHT", confidence |-> 95,
          reason_codes |-> <<"HIGH_ALTITUDE", "FLIGHT_SPEED_RANGE">>]
    ELSE IF SpeedGE(id, prev, 20) /\ SpeedLE(id, prev, 120)
    THEN [mode |-> "CAR", confidence |-> 75, reason_codes |-> <<"CAR_SPEED_RANGE">>]
    ELSE IF SpeedGE(id, prev, 80) /\ SpeedLE(id, prev, 350)
    THEN IF CrossesProvince(id, prev)
         THEN [mode |-> "TRAIN", confidence |-> 85,
               reason_codes |-> <<"TRAIN_SPEED_RANGE", "CROSSES_PROVINCE">>]
         ELSE [mode |-> "CAR", confidence |-> 70, reason_codes |-> <<"HIGH_SPEED">>]
    ELSE IF SpeedGE(id, prev, 1) /\ SpeedLT(id, prev, 10)
    THEN [mode |-> "WALK", confidence |-> 80, reason_codes |-> <<"WALKING_SPEED">>]
    ELSE IF SpeedLT(id, prev, 1)
    THEN [mode |-> "STAY", confidence |-> 90, reason_codes |-> <<"STATIONARY">>]
    ELSE [mode |-> "UNKNOWN", confidence |-> 50, reason_codes |-> <<"NO_MATCHING_RULE">>]

\* classify_point: confidence in hundredths
ClassifyPoint(id, prev) ==
    LET crosses_province == CrossesProvince(id, prev)
    IN  IF store[id].altitude > 1000 /\ SpeedGE(id, prev, 200) /\ SpeedLE(id, prev, 1000)
        THEN [mode |-> "FLIGHT", confidence |-> 95,
              reason_codes |-> <<"HIGH_ALTITUDE", "FLIGHT_SPEED_RANGE">>]
        ELSE IF SpeedGE(id, prev, 80) /\ SpeedLE(id, prev, 350)
        THEN IF crosses_province
             THEN [mode |-> "TRAIN", confidence |-> 85,
                   reason_codes |-> <<"TRAIN_SPEED_RANGE", "CROSSES_PROVINCE">>]
             ELSE [mode |-> "CAR", confidence |-> 70,
                   reason_codes |-> <<"HIGH_SPEED">>]
        ELSE IF SpeedGE(id, prev, 20) /\ SpeedLE(id, prev, 120)
        THEN [mode |-> "CAR", confidence |-> 75,
              reason_codes |-> <<"CAR_SPEED_RANGE">>]
        ELSE IF SpeedGE(id, prev, 1) /\ SpeedLT(id, prev, 10)
        THEN [mode |-> "WALK", confidence |-> 80,
              reason_codes |-> <<"WALKING_SPEED">>]
        ELSE IF SpeedLT(id, prev, 1)
        THEN [mode |-> "STAY", confidence |-> 90,
              reason_codes |-> <<"STATIONARY">>]
        ELSE [mode |-> "UNKNOWN", confidence |-> 50,
              reason_codes |-> <<"NO_MATCHING_RULE">>]

\* process_batch, first loop: every point classified against its predecessor
\* in the batch
Classifications(points) ==
    [i \in 1..Len(points) |->
        [id |-> points[i],
         c  |-> ClassifyPoint(points[i], IF i > 1 THEN points[i-1] ELSE NoRef)]]

\* the segmentation loop with confidence and reason codes refreshed by every
\* appended point (those of the last point of the run)
RECURSIVE SegmentRuns_LastPoint(_, _, _, _)
SegmentRuns_LastPoint(cl, i, cur, acc) ==
    LET closed == IF cur.pts = <<>> THEN acc ELSE Append(acc, cur)
    IN  IF i > Len(cl) THEN closed
        ELSE IF cl[i].c.mode # cur.mode
        THEN SegmentRuns_LastPoint(cl, i + 1,
                         [pts |-> <<cl[i].id>>, mode |-> cl[i].c.mode,
                          confidence |-> cl[i].c.confidence,
                          reason_codes |-> cl[i].c.reason_codes],
                         closed)
        ELSE SegmentRuns_LastPoint(cl, i + 1,
                         [cur EXCEPT !.pts = Append(@, cl[i].id),
                                     !.confidence = cl[i].c.confidence,
                                     !.reason_codes = cl[i].c.reason_codes],
                         acc)

\* process_batch, second loop: runs of equal mode; confidence and reason codes
\* are taken when the run is opened
RECURSIVE SegmentRuns(_, _, _, _)
SegmentRuns(cl, i, cur, acc) ==
    LET closed == IF cur.pts = <<>> THEN acc ELSE Append(acc, cur)
    IN  IF i > Len(cl) THEN closed
        ELSE IF cl[i].c.mode # cur.mode
        THEN SegmentRuns(cl, i + 1,
                         [pts |-> <<cl[i].id>>, mode |-> cl[i].c.mode,
                          confidence |-> cl[i].c.confidence,
                          reason_codes |-> cl[i].c.reason_codes],
                         closed)
        ELSE SegmentRuns(cl, i + 1, [cur EXCEPT !.pts = Append(@, cl[i].id)], acc)

NoRun == [pts |-> <<>>, mode |-> "None", confidence |-> 0, reason_codes |-> <<>>]

RECURSIVE PathLength(_)
PathLength(points) ==
    IF Len(points) < 2 THEN 0
    ELSE Dist(store[points[1]].pos, store[points[2]].pos) + PathLength(Tail(points))

RECURSIVE MaxSpeed(_)
MaxSpeed(points) ==
    IF Len(points) = 1 THEN store[points[1]].speed
    ELSE Max2(store[Head(points)].speed, MaxSpeed(Tail(points)))

\* create_segment (the row without its id)
CreateSegment(run) ==
    [mode           |-> run.mode,
     start_time     |-> store[Head(run.pts)].dataTime,
     end_time       |-> store[Last(run.pts)].dataTime,
     start_point_id |-> Head(run.pts),
     end_point_id   |-> Last(run.pts),
     point_count    |-> Len(run.pts),
     distance_m     |-> PathLength(run.pts),
     duration_s     |-> store[Last(run.pts)].dataTime - store[Head(run.pts)].dataTime,
     max_speed_kmh  |-> MaxSpeed(run.pts),
     confidence     |-> run.confidence,
     reason_codes   |-> run.reason_codes]

\* one segment per classified point: equal modes are not merged
BuildSegments_PerPoint(points) ==
    LET cl == Classifications(points)
    IN  [k \in 1..Len(cl) |->
            CreateSegment([pts |-> <<cl[k].id>>, mode |-> cl[k].c.mode,
                           confidence |-> cl[k].c.confidence,
                           reason_codes |-> cl[k].c.reason_codes])]

\* process_batch: the segments of the batch, in batch order
BuildSegments(points) ==
    LET runsOf == SegmentRuns(Classifications(points), 1, NoRun, <<>>)
    IN  [k \in 1..Len(runsOf) |-> CreateSegment(runsOf[k])]

WithId(row, id) == [f \in (DOMAIN row) \cup {"id"} |-> IF f = "id" THEN id ELSE row[f]]

\* INSERT INTO segments
InsertSegment(d, row) ==
    [d EXCEPT !.segments = Append(@, WithId(row, LastRowId(d.segments)))]

\* UPDATE points SET segment_id, mode WHERE id >= start_point_id AND id <= end_point_id
UpdateSegmentPoints(d, seg) ==
    LET hit(i) == i >= seg.start_point_id /\ i <= seg.end_point_id
    IN  [d EXCEPT !.segment_id = [i \in Ids |-> IF hit(i) THEN seg.id ELSE @[i]],
                  !.mode       = [i \in Ids |-> IF hit(i) THEN seg.mode ELSE @[i]]]

\* process_batch, last loop, cut after n statements (two per segment)
RECURSIVE ExecSegmentWrites(_, _, _)
ExecSegmentWrites(d, rows, n) ==
    IF rows = <<>> \/ n = 0 THEN d
    ELSE LET ins == InsertSegment(d, Head(rows))
         IN  IF n = 1 THEN ins
             ELSE ExecSegmentWrites(UpdateSegmentPoints(ins, Last(ins.segments)),
                                    Tail(rows), n - 2)

\* ------------------------------------------- stay detection worker (batch)
Duration(points) == store[Last(points)].dataTime - store[Head(points)].dataTime

RECURSIVE PosSum(_)
PosSum(points) == IF points = <<>> THEN 0 ELSE store[Head(points)].pos + PosSum(Tail(points))

\* distance <= spatial_radius_m, the centre being the mean position of the
\* current group: |pos - sum/n| <= r  iff  |n*pos - sum| <= r*n
WithinRadius_LastPoint(id, group, radius) ==
    Dist(store[id].pos, store[Last(group)].pos) <= radius

WithinRadius(id, group, radius) ==
    Abs(Len(group) * store[id].pos - PosSum(group)) <= radius * Len(group)

\* the duration filter of detect_spatial_stays / detect_admin_stays
MeetsMinDuration_NoFilter(group, min_duration_s) == Len(group) >= 2

MeetsMinDuration(group, min_duration_s) ==
    Len(group) >= 2 /\ Duration(group) >= min_duration_s

\* datetime.fromtimestamp(start_time).hour, the worker's clock being UTC
HourOf(t) == (t \div 3600) % 24

\* classify_stay_type
ClassifyStayType(start_time, duration_s) ==
    IF HourOf(start_time) >= 22 \/ HourOf(start_time) < 6 THEN "HOME"
    ELSE IF HourOf(start_time) >= 9 /\ HourOf(start_time) < 18 /\ duration_s > 14400 THEN "WORK"
    ELSE IF duration_s < 3600 THEN "TRANSIT"
    ELSE "VISIT"

RECURSIVE MaxRadiusX(_, _, _)
MaxRadiusX(points, sum, n) ==
    IF points = <<>> THEN 0
    ELSE Max2(Abs(n * store[Head(points)].pos - sum), MaxRadiusX(Tail(points), sum, n))

\* create_stay_segment (the row without its id); the centre is center_sum /
\* point_count and the radius radius_x / point_count
CreateStaySegment(points, stay_type) ==
    [stay_type     |-> stay_type,
     start_time    |-> store[Head(points)].dataTime,
     end_time      |-> store[Last(points)].dataTime,
     duration_s    |-> Duration(points),
     center_sum    |-> PosSum(points),
     radius_x      |-> MaxRadiusX(points, PosSum(points), Len(points)),
     province      |-> ProvinceOf(store[Head(points)].pos),
     county        |-> CountyOf(store[Head(points)].pos),
     point_count   |-> Len(points),
     activity_type |-> ClassifyStayType(store[Head(points)].dataTime, Duration(points))]

\* detect_spatial_stays (same = WithinRadius) and detect_admin_stays (same =
\* equal county label, admin_level 'county'), which share the scan
RECURSIVE StayScan(_, _, _, _, _, _)
StayScan(points, i, cur, acc, tag, min_duration_s) ==
    LET closed == IF MeetsMinDuration(cur, min_duration_s)
                  THEN Append(acc, CreateStaySegment(cur, tag)) ELSE acc
        same(id) == IF tag = "SPATIAL"
                    THEN WithinRadius(id, cur, DefaultSpatialRadius)
                    ELSE CountyOf(store[id].pos) = CountyOf(store[Head(cur)].pos)
    IN  IF i > Len(points) THEN closed
        ELSE IF cur = <<>> THEN StayScan(points, i + 1, <<points[i]>>, acc, tag, min_duration_s)
        ELSE IF same(points[i])
        THEN StayScan(points, i + 1, Append(cur, points[i]), acc, tag, min_duration_s)
        ELSE StayScan(points, i + 1, <<points[i]>>, closed, tag, min_duration_s)

DetectSpatialStays(points, min_duration_s) ==
    StayScan(points, 1, <<>>, <<>>, "SPATIAL", min_duration_s)

DetectAdminStays(points, min_duration_s) ==
    StayScan(points, 1, <<>>, <<>>, "ADMIN_COUNTY", min_duration_s)

\* params.get('min_duration_s', 7200)
MinDurationOf(params) ==
    IF params.min_duration_s = NoRef THEN DefaultMinDuration ELSE params.min_duration_s

\* process_batch: the stays of one batch under params['mode']
DetectStays(points, params) ==
    IF params.mode = "spatial" THEN DetectSpatialStays(points, MinDurationOf(params))
    ELSE IF params.mode = "admin" THEN DetectAdminStays(points, MinDurationOf(params))
    ELSE DetectSpatialStays(points, MinDurationOf(params))
         \o DetectAdminStays(points, MinDurationOf(params))

\* INSERT INTO stay_segments
InsertStay(d, row) ==
    [d EXCEPT !.stays = Append(@, WithId(row, LastRowId(d.stays)))]

\* UPDATE points SET stay_id WHERE dataTime >= start_time AND dataTime <= end_time
UpdateStayPoints(d, stay) ==
    [d EXCEPT !.stay_id =
        [i \in Ids |-> IF store[i].dataTime >= stay.start_time
                          /\ store[i].dataTime <= stay.end_time
                       THEN stay.id ELSE @[i]]]

\* process_batch, insert loop, cut after n statements (two per stay)
RECURSIVE ExecStayWrites(_, _, _)
ExecStayWrites(d, rows, n) ==
    IF rows = <<>> \/ n = 0 THEN d
    ELSE LET ins == InsertStay(d, Head(rows))
         IN  IF n = 1 THEN ins
             ELSE ExecStayWrites(UpdateStayPoints(ins, Last(ins.stays)), Tail(rows), n - 2)

\* ----------------------------------------- stay detection worker (DBSCAN)
\* load_data: WHERE outlier_flag = 0 ORDER BY dataTime
LoadData == OrderByDataTime({i \in Ids : ~store[i].outlier_flag})

\* DBSCAN(eps = spatial_eps_m / 111000, metric = haversine metres): two
\* points are neighbours iff metres <= eps; the distances of the model are whole
\* metres, so iff metres <= floor(spatial_eps_m / 111000)
Neighbours(points, i) ==
    {j \in 1..Len(points) :
        Dist(store[points[i]].pos, store[points[j]].pos) <= DensityEps \div DensityDegreeDivisor}

IsCore(points, i) == Cardinality(Neighbours(points, i)) >= DensityMinSamples

\* the unlabelled points density-reachable from the members of C
RECURSIVE Expand(_, _, _)
Expand(points, C, labels) ==
    LET C2 == C \cup {j \in 1..Len(points) :
                        /\ labels[j] = -1
                        /\ \E i \in C : IsCore(points, i) /\ j \in Neighbours(points, i)}
    IN  IF C2 = C THEN C ELSE Expand(points, C2, labels)

\* temporal_spatial_dbscan: labels by position in the point list, -1 = noise
RECURSIVE Dbscan(_, _, _, _)
Dbscan(points, i, labels, next) ==
    IF i > Len(points) THEN labels
    ELSE IF labels[i] # -1 \/ ~IsCore(points, i) THEN Dbscan(points, i + 1, labels, next)
    ELSE LET C == Expand(points, {i}, labels)
         IN  Dbscan(points, i + 1,
                    [j \in 1..Len(points) |-> IF j \in C THEN next ELSE labels[j]],
                    next + 1)

TemporalSpatialDbscan(points) ==
    Dbscan(points, 1, [j \in 1..Len(points) |-> -1], 0)

RECURSIVE MaxLabel(_, _)
MaxLabel(labels, n) == IF n = 0 THEN -1 ELSE Max2(labels[n], MaxLabel(labels, n - 1))

\* the members of a cluster, as positions in the point list, in time order
\* (the list is already ordered by dataTime)
RECURSIVE Members(_, _, _)
Members(labels, l, i) ==
    IF i > Len(labels) THEN <<>>
    ELSE IF labels[i] = l THEN <<i>> \o Members(labels, l, i + 1)
    ELSE Members(labels, l, i + 1)

\* the first position k of a member list whose gap to its predecessor exceeds
\* max_time_gap_s, or 0
FirstGap(points, mem) ==
    LET gaps == {k \in 2..Len(mem) :
                    store[points[mem[k]]].dataTime - store[points[mem[k-1]]].dataTime
                        > DensityMaxTimeGap}
    IN  IF gaps = {} THEN 0 ELSE CHOOSE k \in gaps : \A m \in gaps : k <= m

\* filter_by_temporal_continuity: each original cluster is split once, at its
\* first gap (the inner loop breaks after the first split)
RECURSIVE SplitClusters(_, _, _, _, _)
SplitClusters(points, labels, filtered, l, new_label) ==
    IF l > MaxLabel(labels, Len(labels)) THEN filtered
    ELSE LET mem == Members(labels, l, 1)
             k   == FirstGap(points, mem)
         IN  IF k = 0 THEN SplitClusters(points, labels, filtered, l + 1, new_label)
             ELSE SplitClusters(points, labels,
                     [j \in 1..Len(labels) |->
                         IF \E m \in k..Len(mem) : mem[m] = j THEN new_label ELSE filtered[j]],
                     l + 1, new_label + 1)

FilterByTemporalContinuity(points, labels) ==
    SplitClusters(points, labels, labels, 0, MaxLabel(labels, Len(labels)) + 1)

\* process: one stay per remaining label whose duration reaches min_duration_s
RECURSIVE DensityStays(_, _, _)
DensityStays(points, labels, l) ==
    IF l > MaxLabel(labels, Len(labels)) THEN <<>>
    ELSE LET mem == Members(labels, l, 1)
             ids == [k \in 1..Len(mem) |-> points[mem[k]]]
         IN  IF mem = <<>> \/ Duration(ids) < DensityMinDuration
             THEN DensityStays(points, labels, l + 1)
             ELSE <<[CreateStaySegment(ids, "DENSITY") EXCEPT !.activity_type = ""]>>
                  \o DensityStays(points, labels, l + 1)

\* process: the labels after both passes (by position in the point list)
DensityLabels(points) ==
    IF points = <<>> THEN <<>>
    ELSE FilterByTemporalContinuity(points, TemporalSpatialDbscan(points))

\* process: the stay dicts it builds, one per cluster that passes the filter
DensityProcess(points) ==
    IF points = <<>> THEN <<>>
    ELSE DensityStays(points, DensityLabels(points), 0)

\* process reads the labels of a cluster's first point with admin_info.get():
\* the points are sqlite3.Row objects (row_factory of __init__), which have no
\* get, so building the first stay dict raises AttributeError
DensityProcessRaises(points) == DensityProcess(points) # <<>>

\* save_results: DELETE FROM stay_segments, then one INSERT per stay
RECURSIVE InsertStays(_, _)
InsertStays(d, rows) ==
    IF rows = <<>> THEN d ELSE InsertStays(InsertStay(d, Head(rows)), Tail(rows))

SaveResults(d, rows) == InsertStays([d EXCEPT !.stays = <<>>], rows)

\* ------------------------------------------------ outlier detection worker
\* thresholds: load_thresholds' defaults (equal to the class attributes)
LOW_ACCURACY_THRESHOLD == 100
MAX_SPEED_THRESHOLD == 300
BACKTRACK_DISTANCE_THRESHOLD == 50
BACKTRACK_TIME_THRESHOLD == 300
STATIC_DRIFT_DISTANCE == 20
STATIC_DRIFT_MIN_POINTS == 3
JumpMaxTimeDiff == 3600       \* detect_jump: if time_diff > 3600
BacktrackMinLeg == 10         \* detect_backtrack: dist_ab < 10 or dist_ba < 10
DriftLookback == 4            \* process_batch: if i >= 4, point_dicts[i-4:i+1]

\* detect_low_accuracy
DetectLowAccuracy(point) == point.accuracy > LOW_ACCURACY_THRESHOLD

\* calculate_speed(distance, time_diff) > k, in km/h: 3.6 * distance /
\* time_diff > k, and 0 > k when time_diff is 0 (time_diff is never negative,
\* the batch being ordered by dataTime)
CalculatedSpeedExceeds(distance, time_diff, k) ==
    IF time_diff = 0 THEN 0 > k
    ELSE 36 * distance > 10 * k * time_diff

\* detect_jump
DetectJump_NoGapSkip(prev_point, curr_point) ==
    CalculatedSpeedExceeds(Dist(prev_point.pos, curr_point.pos),
                           curr_point.dataTime - prev_point.dataTime,
                           MAX_SPEED_THRESHOLD)

DetectJump(prev_point, curr_point) ==
    LET distance  == Dist(prev_point.pos, curr_point.pos)
        time_diff == curr_point.dataTime - prev_point.dataTime
    IN  IF time_diff > JumpMaxTimeDiff THEN FALSE
        ELSE CalculatedSpeedExceeds(distance, time_diff, MAX_SPEED_THRESHOLD)

\* detect_backtrack over a window [A, B, A']
DetectBacktrack_NoTimeCheck(points_window) ==
    /\ Len(points_window) >= 3
    /\ Dist(points_window[1].pos, points_window[3].pos) <= BACKTRACK_DISTANCE_THRESHOLD
    /\ Dist(points_window[1].pos, points_window[2].pos) >= BacktrackMinLeg
    /\ Dist(points_window[2].pos, points_window[3].pos) >= BacktrackMinLeg

DetectBacktrack(points_window) ==
    IF Len(points_window) < 3 THEN FALSE
    ELSE LET dist_ab   == Dist(points_window[1].pos, points_window[2].pos)
             dist_ba   == Dist(points_window[2].pos, points_window[3].pos)
             dist_aa   == Dist(points_window[1].pos, points_window[3].pos)
             time_diff == points_window[3].dataTime - points_window[1].dataTime
         IN  IF dist_aa > BACKTRACK_DISTANCE_THRESHOLD THEN FALSE
             ELSE IF time_diff > BACKTRACK_TIME_THRESHOLD THEN FALSE
             ELSE IF dist_ab < BacktrackMinLeg \/ dist_ba < BacktrackMinLeg THEN FALSE
             ELSE TRUE

\* detect_static_drift: the centroid is the mean position, so a point is
\* closer than d to it iff |n * pos - sum| < d * n
DetectStaticDrift(points_window) ==
    IF Len(points_window) < STATIC_DRIFT_MIN_POINTS THEN FALSE
    ELSE LET n   == Len(points_window)
             sum == SumSeq([k \in 1..n |-> points_window[k].pos])
             all_close ==
                 \A k \in 1..n :
                     Abs(n * points_window[k].pos - sum) < STATIC_DRIFT_DISTANCE * n
             coords_vary == Cardinality({points_window[k].pos : k \in 1..n}) > 1
         IN  all_close /\ coords_vary

\* process_batch: the reason codes of the i-th point of the batch, in the
\* order the checks append them
ReasonCodes(point_dicts, i) ==
    (IF DetectLowAccuracy(point_dicts[i]) THEN <<"LOW_ACCURACY">> ELSE <<>>)
    \o (IF i > 1 /\ DetectJump(point_dicts[i - 1], point_dicts[i])
        THEN <<"JUMP">> ELSE <<>>)
    \o (IF i >= 3 /\ DetectBacktrack(SubSeq(point_dicts, i - 2, i))
        THEN <<"BACKTRACK">> ELSE <<>>)
    \o (IF i >= DriftLookback + 1
           /\ DetectStaticDrift(SubSeq(point_dicts, i - DriftLookback, i))
        THEN <<"STATIC_DRIFT">> ELSE <<>>)

\* process_batch: qa_status from the reason codes
QaStatus_LowAccuracyWins(reason_codes) ==
    IF reason_codes = <<>> THEN "PASS"
    ELSE IF "LOW_ACCURACY" \in Range(reason_codes) THEN "WARNING"
    ELSE "FAIL"

QaStatus(reason_codes) ==
    IF ~(Len(reason_codes) > 0) THEN "PASS"
    ELSE IF "LOW_ACCURACY" \in Range(reason_codes) /\ Len(reason_codes) = 1 THEN "WARNING"
    ELSE "FAIL"

\* process_batch: the UPDATE of one point (reason codes are stored as NULL
\* when the list is empty)
UpdateOutlier(d, id, reason_codes) ==
    [d EXCEPT !.outlier_flag[id] = Len(reason_codes) > 0,
              !.outlier_reason_codes[id] =
                  IF reason_codes = <<>> THEN "NULL" ELSE reason_codes,
              !.qa_status[id] = QaStatus(reason_codes)]

\* process_batch: the loop over the batch; the UPDATE of a point in bad raises
\* and the point is counted as failed
RECURSIVE AnnotateBatch(_, _, _, _)
AnnotateBatch(d, points, i, bad) ==
    IF i > Len(points) THEN d
    ELSE AnnotateBatch(
            IF points[i] \in bad THEN d
            ELSE UpdateOutlier(d, points[i],
                               ReasonCodes([k \in 1..Len(points) |-> store[points[k]]], i)),
            points, i + 1, bad)

\* ------------------------------------------ trajectory completion worker
\* thresholds: load_thresholds' defaults (equal to the class attributes)
HIGH_SPEED_THRESHOLD == 80
FLIGHT_ALTITUDE_THRESHOLD == 1000
TRAIN_SPEED_RANGE == <<80, 350>>
FLIGHT_SPEED_RANGE == <<200, 1000>>
GAP_THRESHOLD == 3600            \* detect_gaps
InterpolationStep == 600         \* process_batch: time_diff // 600
CruiseAltitude == 10000          \* interpolate_points: altitude profile
SpeedScale == 100                \* average speeds are kept in 1/100 km/h

\* a row of the point table as process_batch sees it: an observed point (ids
\* 1..NPoints) or an inserted one (no administrative labels)
GapPoint(d, id) ==
    IF id \in Ids
    THEN [id |-> id, dataTime |-> store[id].dataTime, pos |-> store[id].pos,
          altitude |-> store[id].altitude, province |-> ProvinceOf(store[id].pos)]
    ELSE LET r == CHOOSE r \in Range(d.synthetic) : r.id = id
         IN  [id |-> id, dataTime |-> r.dataTime, pos |-> r.pos,
              altitude |-> r.altitude, province |-> "NULL"]

GapRowIds(d) == Ids \cup {d.synthetic[k].id : k \in 1..Len(d.synthetic)}

\* ORDER BY dataTime over rows of the point table (equal times by id)
RECURSIVE OrderRowsByDataTime(_, _)
OrderRowsByDataTime(d, S) ==
    IF S = {} THEN <<>>
    ELSE LET m == CHOOSE i \in S : \A j \in S :
                    \/ GapPoint(d, i).dataTime < GapPoint(d, j).dataTime
                    \/ GapPoint(d, i).dataTime = GapPoint(d, j).dataTime /\ i <= j
         IN  <<m>> \o OrderRowsByDataTime(d, S \ {m})

\* get_unanalyzed_points of the base class on the point table of this stage:
\* WHERE segment_id IS NULL (INCREMENTAL) or no condition; the inserted rows
\* have no segment_id either
GapUnanalyzedPoints(d, tt, limit) ==
    LET inserted == {d.synthetic[k].id : k \in 1..Len(d.synthetic)}
    IN  IF tt = "INCREMENTAL"
        THEN Limit(OrderRowsByDataTime(d, {i \in Ids : d.segment_id[i] = NoRef} \cup inserted),
                   limit)
        ELSE Limit(OrderRowsByDataTime(d, GapRowIds(d)), limit)

\* calculate_speed in 1/100 km/h, truncated: 3.6 * distance / time_diff
GapSpeed(prev, curr) ==
    LET time_diff == curr.dataTime - prev.dataTime
    IN  IF time_diff = 0 THEN 0
        ELSE (36 * (SpeedScale \div 10) * Dist(prev.pos, curr.pos)) \div time_diff

\* identify_transport_type: "FLIGHT", "TRAIN" or "None"
IdentifyTransportType_NoProvinceCheck(points_window) ==
    LET n         == Len(points_window) - 1
        speed_sum == SumSeq([i \in 1..n |-> GapSpeed(points_window[i], points_window[i + 1])])
        alt_sum   == SumSeq([i \in 1..n |-> points_window[i + 1].altitude])
    IN  IF Len(points_window) < 2 THEN "None"
        ELSE IF /\ alt_sum > FLIGHT_ALTITUDE_THRESHOLD * n
                /\ FLIGHT_SPEED_RANGE[1] * SpeedScale * n <= speed_sum
                /\ speed_sum <= FLIGHT_SPEED_RANGE[2] * SpeedScale * n
        THEN "FLIGHT"
        ELSE IF /\ TRAIN_SPEED_RANGE[1] * SpeedScale * n <= speed_sum
                /\ speed_sum <= TRAIN_SPEED_RANGE[2] * SpeedScale * n
        THEN "TRAIN"
        ELSE "None"

IdentifyTransportType(points_window) ==
    LET n         == Len(points_window) - 1
        speed_sum == SumSeq([i \in 1..n |-> GapSpeed(points_window[i], points_window[i + 1])])
        alt_sum   == SumSeq([i \in 1..n |-> points_window[i + 1].altitude])
        provinces == {points_window[i].province : i \in 1..Len(points_window)} \ {"NULL"}
    IN  IF Len(points_window) < 2 THEN "None"
        ELSE IF /\ alt_sum > FLIGHT_ALTITUDE_THRESHOLD * n
                /\ FLIGHT_SPEED_RANGE[1] * SpeedScale * n <= speed_sum
                /\ speed_sum <= FLIGHT_SPEED_RANGE[2] * SpeedScale * n
        THEN "FLIGHT"
        ELSE IF /\ TRAIN_SPEED_RANGE[1] * SpeedScale * n <= speed_sum
                /\ speed_sum <= TRAIN_SPEED_RANGE[2] * SpeedScale * n
                /\ Cardinality(provinces) > 1
        THEN "TRAIN"
        ELSE "None"

\* detect_gaps: the positions i (from 1) of the batch such that the step from
\* point i to point i+1 is a gap, in batch order
DetectGaps(points) ==
    SelectSeq([i \in 1..(Len(points) - 1) |-> i],
              LAMBDA i :
                  /\ points[i + 1].dataTime - points[i].dataTime > GAP_THRESHOLD
                  /\ CalculatedSpeedExceeds(Dist(points[i].pos, points[i + 1].pos),
                                            points[i + 1].dataTime - points[i].dataTime,
                                            HIGH_SPEED_THRESHOLD))

\* process_batch: point_dicts[max(0, start_idx-2) : min(len(point_dicts), end_idx+3)]
GapWindow(points, i) ==
    SubSeq(points, Max2(1, i - 2), IF i + 3 <= Len(points) THEN i + 3 ELSE Len(points))

\* process_batch: num_points = max(1, time_diff // 600)
NumPoints(time_diff) == Max2(1, time_diff \div InterpolationStep)

\* int(start + ratio * time_diff) in double arithmetic: the product falls just
\* below the whole number for these arguments (of those the model draws) and
\* int() then truncates to one less
FloatShortfall(start, time_diff, i) ==
    IF start = 0 /\ time_diff = 5400 /\ i = 7 THEN 1 ELSE 0

\* interpolate_points: the flight altitude profile at ratio i / (n + 1)
ProfileAltitude(i, n, transport_type) ==
    IF transport_type # "FLIGHT" THEN 0
    ELSE IF 5 * i < n + 1 THEN (5 * CruiseAltitude * i) \div (n + 1)
    ELSE IF 5 * i > 4 * (n + 1) THEN (5 * CruiseAltitude * (n + 1 - i)) \div (n + 1)
    ELSE CruiseAltitude

\* interpolate_points (positions in whole metres)
InterpolatePoints(start_point, end_point, num_points, transport_type) ==
    LET time_diff == end_point.dataTime - start_point.dataTime
    IN  [i \in 1..num_points |->
            [dataTime |-> start_point.dataTime + (i * time_diff) \div (num_points + 1)
                            - FloatShortfall(start_point.dataTime, time_diff, i),
             pos |-> start_point.pos
                       + (i * (end_point.pos - start_point.pos)) \div (num_points + 1),
             altitude |-> ProfileAltitude(i, num_points, transport_type),
             is_synthetic |-> "1",
             synthetic_source |-> transport_type \o "_INTERPOLATION",
             start_id |-> start_point.id,
             end_id |-> end_point.id,
             interpolation_ratio |-> <<i, num_points + 1>>]]

\* INSERT INTO the point table, one row per interpolated point
RECURSIVE InsertSynthetic(_, _)
InsertSynthetic(d, rows) ==
    IF rows = <<>> THEN d
    ELSE InsertSynthetic(
            [d EXCEPT !.synthetic =
                Append(@, WithId(Head(rows), Max2(NPoints, MaxId(d.synthetic)) + 1))],
            Tail(rows))

\* process_batch, the loop over the gaps from position k of the gap list: an
\* undetermined gap is skipped; the INSERTs of gap failgap raise after failat
\* rows (failgap = 0: none raises)
RECURSIVE ProcessGaps(_, _, _, _, _, _)
ProcessGaps(d, points, gaps, k, failgap, failat) ==
    IF k > Len(gaps) THEN d
    ELSE LET start_point    == points[gaps[k]]
             end_point      == points[gaps[k] + 1]
             transport_type == IdentifyTransportType(GapWindow(points, gaps[k]))
             num_points     == NumPoints(end_point.dataTime - start_point.dataTime)
             interpolated   == InterpolatePoints(start_point, end_point, num_points,
                                                 transport_type)
         IN  IF transport_type = "None"
             THEN ProcessGaps(d, points, gaps, k + 1, failgap, failat)
             ELSE ProcessGaps(
                     InsertSynthetic(d, IF k = failgap
                                        THEN SubSeq(interpolated, 1, failat)
                                        ELSE interpolated),
                     points, gaps, k + 1, failgap, failat)

\* UPDATE ... SET is_synthetic = 0 WHERE id = ?, for every point of the batch
\* but those whose UPDATE raises
MarkNonSynthetic(d, ids) ==
    [d EXCEPT !.is_synthetic = [i \in Ids |-> IF i \in ids THEN "0" ELSE @[i]],
              !.synthetic = [k \in 1..Len(@) |->
                                IF @[k].id \in ids
                                THEN [@[k] EXCEPT !.is_synthetic = "0"] ELSE @[k]]]

\* process_batch: point_dicts
PointDicts(d, ids) == [k \in 1..Len(ids) |-> GapPoint(d, ids[k])]

\* process_batch without its commit: the tables it leaves
GapProcess(d, ids, failgap, failat, bad) ==
    LET points == PointDicts(d, ids)
    IN  MarkNonSynthetic(ProcessGaps(d, points, DetectGaps(points), 1, failgap, failat),
                         Range(ids) \ bad)

\* ------------------------------------------------------------ the tables
EmptyTables ==
    [segment_id       |-> [i \in Ids |-> NoRef],
     mode             |-> [i \in Ids |-> "NULL"],
     stay_id          |-> [i \in Ids |-> NoRef],
     segments         |-> <<>>,
     stays            |-> <<>>,
     trips            |-> <<>>,
     status           |-> "pending",
     processed_points |-> 0,
     failed_points    |-> 0,
     progress_percent |-> 0,
     result_summary   |-> <<>>,
     error_message    |-> FALSE]

\* the derived columns and rows of a table state (everything but the task row)
Derived(d) ==
    [segment_id |-> d.segment_id, mode |-> d.mode, stay_id |-> d.stay_id,
     segments |-> d.segments, stays |-> d.stays, trips |-> d.trips]

\* a fresh analysis_tasks row for the next run
FreshTask(d) ==
    [d EXCEPT !.status = "pending", !.processed_points = 0, !.failed_points = 0,
              !.progress_percent = 0, !.result_summary = <<>>, !.error_message = FALSE]

NoHistory ==
    [seen           |-> [i \in Ids |-> 0],  \* times the point was in a processed batch
     stale          |-> FALSE,   \* derived rows of an earlier run were present at the first fetch
     refetched      |-> FALSE,   \* a batch held a point whose stage field was already set
     terminal       |-> 0,       \* terminal status writes of the current run
     partial_seg    |-> {},      \* ids of segments inserted by an aborted batch
     partial_stay   |-> {},      \* ids of stays inserted by an aborted batch
     first          |-> <<>>,    \* the derived tables after the first finished run
     emitted        |-> <<>>,    \* the trips inserted by the current trip run
     labels         |-> <<>>,    \* DBSCAN worker: the labels process() computed
     candidates     |-> <<>>,    \* DBSCAN worker: clusters that passed the duration filter
     result         |-> <<>>]    \* what a directly applied operation returned

\* ------------------------------------------------------------------ Init
\* the points: ids either in time order or with the last id in the middle (a
\* point that arrived late), positions from PosSet with the earliest point at
\* the origin, gaps from GapSet
TimeOrders ==
    {[k \in Ids |-> k],
     [k \in Ids |-> IF k = 1 THEN 1 ELSE IF k = 2 THEN NPoints ELSE k - 1]}

RECURSIVE TimeAt(_, _)
TimeAt(gaps, k) == IF k = 1 THEN 0 ELSE TimeAt(gaps, k - 1) + gaps[k - 1]

Rank(order, id) == CHOOSE k \in Ids : order[k] = id

StoresOf(order, outlierSets) ==
    {[id \in Ids |->
        [dataTime     |-> TimeAt(gaps, Rank(order, id)),
         pos          |-> pos[id],
         speed        |-> 0,
         altitude     |-> 0,
         outlier_flag |-> id \in out]] :
     gaps \in [1..(NPoints - 1) -> GapSet],
     pos \in {f \in [Ids -> PosSet] : f[order[1]] = 0}, out \in outlierSets}

Stores(orders, outlierSets) == UNION {StoresOf(order, outlierSets) : order \in orders}

\* no outlier, or the point of the last id flagged by the outlier stage
OutlierSets == {{}, {NPoints}}

DefaultParams == [mode |-> "spatial", min_duration_s |-> NoRef]

InitCommon ==
    /\ db = EmptyTables
    /\ durable = EmptyTables
    /\ conn = "none"
    /\ pc = "init"
    /\ processed = 0
    /\ failed = 0
    /\ batch = <<>>
    /\ batch_failed = 0
    /\ tstays = <<>>
    /\ ti = 0
    /\ faults = 0
    /\ runs = 0
    /\ hist = NoHistory

Init ==
    /\ InitCommon
    /\ stage \in Stages
    /\ \/ /\ stage = "mode"
          /\ store \in Stores(TimeOrders, OutlierSets)
          /\ batch_size \in Ids
          /\ \E tt \in TaskTypes :
                task = [task_type |-> tt, total_points |-> NPoints, params |-> DefaultParams]
       \/ /\ stage = "stay"
          /\ store \in Stores({[k \in Ids |-> k]}, {{}})
          /\ batch_size \in Ids
          /\ \E tt \in TaskTypes, m \in DetectionModes, md \in MinDurationParams :
                task = [task_type |-> tt, total_points |-> NPoints,
                        params |-> [mode |-> m, min_duration_s |-> md]]
       \/ /\ stage = "density"
          /\ store \in Stores({[k \in Ids |-> k]}, OutlierSets)
          /\ batch_size = NPoints
          /\ \E md \in MinDurationParams :
                task = [task_type |-> "FULL_RECOMPUTE", total_points |-> NPoints,
                        params |-> [mode |-> "spatial", min_duration_s |-> md]]
       \/ /\ stage \in {"outlier", "gap"}
          /\ store \in Stores({[k \in Ids |-> k]}, {{}})
          /\ batch_size = NPoints
          /\ \E tt \in TaskTypes :
                task = [task_type |-> tt, total_points |-> NPoints, params |-> DefaultParams]

\* ------------------------------------------- TaskExecutor / the run loop
Frame == UNCHANGED <<stage, task, batch_size, store>>

RunLocals == <<processed, failed, batch, batch_failed>>

TripLocals == <<tstays, ti>>

BatchStages == {"mode", "stay"}

\* OutlierDetectionWorker.__init__ and TrajectoryCompletionWorker.__init__
\* call load_thresholds -> get_task_info while self.conn is still None: the
\* RuntimeError leaves main() before its try block, nothing is written
ConstructCrash ==
    /\ pc = "init"
    /\ stage \in {"outlier", "gap"}
    /\ pc' = "crashed"
    /\ Frame
    /\ UNCHANGED <<db, durable, conn, RunLocals, TripLocals, faults, runs, hist>>

\* TransportModeWorker / StayDetectionWorker: main() builds the worker and
\* calls run()
Construct ==
    /\ pc = "init"
    /\ stage \in BatchStages
    /\ pc' = "connect"
    /\ processed' = 0
    /\ failed' = 0
    /\ batch' = <<>>
    /\ batch_failed' = 0
    /\ Frame
    /\ UNCHANGED <<db, durable, conn, TripLocals, faults, runs, hist>>

\* run(): self.connect()
Connect ==
    /\ pc = "connect"
    /\ conn' = "open"
    /\ db' = durable
    /\ pc' = "get_task_info"
    /\ Frame
    /\ UNCHANGED <<durable, RunLocals, TripLocals, faults, runs, hist>>

\* sqlite3.connect raises: self.conn stays None, the handler's mark_failed
\* raises RuntimeError in its turn, disconnect does nothing
ConnectFail ==
    /\ pc = "connect"
    /\ faults < MaxFaults
    /\ faults' = faults + 1
    /\ pc' = "crashed"
    /\ Frame
    /\ UNCHANGED <<db, durable, conn, RunLocals, TripLocals, runs, hist>>

\* run(): self.task_info = self.get_task_info()
GetTaskInfo ==
    /\ pc = "get_task_info"
    /\ pc' = "mark_running"
    /\ Frame
    /\ UNCHANGED <<db, durable, conn, RunLocals, TripLocals, faults, runs, hist>>

\* the SELECT raises (database error): control goes to the except clause
GetTaskInfoFail ==
    /\ pc = "get_task_info"
    /\ faults < MaxFaults
    /\ faults' = faults + 1
    /\ pc' = "except"
    /\ Frame
    /\ UNCHANGED <<db, durable, conn, RunLocals, TripLocals, runs, hist>>

\* mark_running: UPDATE analysis_tasks SET status = 'running'; commit
MarkRunning ==
    /\ pc = "mark_running"
    /\ db' = [db EXCEPT !.status = "running"]
    /\ durable' = db'
    /\ pc' = "loop"
    /\ Frame
    /\ UNCHANGED <<conn, RunLocals, TripLocals, faults, runs, hist>>

\* get_unanalyzed_points: the base class query, whatever the stage
\* (get_unanalyzed_points_query of the subclasses is never called)
GetUnanalyzedPoints(d, tt, limit) ==
    IF tt = "INCREMENTAL"
    THEN Limit(OrderByDataTime({i \in Ids : d.segment_id[i] = NoRef}), limit)
    ELSE Limit(OrderByDataTime(Ids), limit)

\* the field the stage derives for a point: set or unset
StageFieldSet(d, st, i) ==
    IF st = "stay" THEN d.stay_id[i] # NoRef ELSE d.segment_id[i] # NoRef

HasDerived(d) ==
    \/ d.segments # <<>>
    \/ d.stays # <<>>
    \/ \E i \in Ids : d.segment_id[i] # NoRef \/ d.stay_id[i] # NoRef

\* run(): while processed < total: points = get_unanalyzed_points();
\* if not points: break
FetchBatch ==
    /\ pc = "loop"
    /\ LET points == GetUnanalyzedPoints(db, task.task_type, batch_size)
       IN  IF processed < task.total_points /\ points # <<>>
           THEN /\ batch' = points
                /\ pc' = "process"
                /\ hist' = [hist EXCEPT
                       !.stale = @ \/ (processed = 0 /\ HasDerived(db)),
                       !.refetched = @ \/ \E i \in Range(points) : StageFieldSet(db, stage, i)]
           ELSE /\ batch' = <<>>
                /\ pc' = "finish"
                /\ hist' = hist
    /\ Frame
    /\ UNCHANGED <<db, durable, conn, processed, failed, batch_failed, TripLocals, faults, runs>>

\* the SELECT of get_unanalyzed_points raises
FetchFail ==
    /\ pc = "loop"
    /\ processed < task.total_points
    /\ faults < MaxFaults
    /\ faults' = faults + 1
    /\ pc' = "except"
    /\ Frame
    /\ UNCHANGED <<db, durable, conn, RunLocals, TripLocals, runs, hist>>

Seen(h, points) ==
    [h EXCEPT !.seen = [i \in Ids |-> IF i \in Range(points) THEN @[i] + 1 ELSE @[i]]]

\* the writes of one process_batch call, cut after n statements
BatchRows(st, points) ==
    IF st = "mode" THEN BuildSegments(points) ELSE DetectStays(points, task.params)

ExecBatchWrites(d, st, rows, n) ==
    IF st = "mode" THEN ExecSegmentWrites(d, rows, n) ELSE ExecStayWrites(d, rows, n)

\* a row whose latitude / longitude columns are NULL is stored with this position
NullPos == -1

\* calculate_speed / calculate_distance on a None coordinate: lat2 - lat1 (or
\* the sum of the centroid) raises TypeError.  Both batch workers reach that
\* arithmetic as soon as the batch has a second point; a batch of one point
\* never computes a distance.
DataError(points) ==
    /\ Len(points) >= 2
    /\ \E k \in 1..Len(points) : store[points[k]].pos = NullPos

\* process_batch runs to its commit and returns 0; run() adds the counters
ProcessBatch ==
    /\ pc = "process"
    /\ ~DataError(batch)
    /\ LET rows == BatchRows(stage, batch)
       IN  /\ db' = ExecBatchWrites(db, stage, rows, 2 * Len(rows))
           /\ durable' = db'
    /\ batch_failed' = 0
    /\ processed' = processed + Len(batch)
    /\ failed' = failed
    /\ hist' = Seen(hist, batch)
    /\ pc' = "progress"
    /\ Frame
    /\ UNCHANGED <<conn, batch, TripLocals, faults, runs>>

NewIds(before, after) == {after[k].id : k \in (Len(before) + 1)..Len(after)}

\* an INSERT or UPDATE of process_batch raises after n statements: the except
\* clause logs, neither commits nor rolls back, and returns len(points)
ProcessBatchAbort ==
    /\ pc = "process"
    /\ faults < MaxFaults
    /\ LET rows == BatchRows(stage, batch)
       IN  \E n \in 0..(2 * Len(rows) - 1) :
              /\ db' = ExecBatchWrites(db, stage, rows, n)
              /\ hist' = [Seen(hist, batch) EXCEPT
                     !.partial_seg = @ \cup NewIds(db.segments, db'.segments),
                     !.partial_stay = @ \cup NewIds(db.stays, db'.stays)]
    /\ faults' = faults + 1
    /\ batch_failed' = Len(batch)
    /\ processed' = processed + Len(batch)
    /\ failed' = failed + Len(batch)
    /\ pc' = "progress"
    /\ Frame
    /\ UNCHANGED <<durable, conn, batch, TripLocals, runs>>

\* the TypeError of a None coordinate is raised inside the try block that
\* spans the whole batch, before the first INSERT: the except clause logs and
\* returns len(points); run() adds the counters
ProcessBatchDataError ==
    /\ pc = "process"
    /\ DataError(batch)
    /\ batch_failed' = Len(batch)
    /\ processed' = processed + Len(batch)
    /\ failed' = failed + Len(batch)
    /\ hist' = Seen(hist, batch)
    /\ pc' = "progress"
    /\ Frame
    /\ UNCHANGED <<db, durable, conn, batch, TripLocals, faults, runs>>

\* update_progress: UPDATE analysis_tasks SET processed_points ...; commit
UpdateProgress ==
    /\ pc = "progress"
    /\ db' = [db EXCEPT !.processed_points = processed,
                        !.failed_points = failed,
                        !.progress_percent = (processed * 100) \div task.total_points]
    /\ durable' = db'
    /\ pc' = "loop"
    /\ Frame
    /\ UNCHANGED <<conn, RunLocals, TripLocals, faults, runs, hist>>

\* mark_completed(result_summary); commit
MarkCompleted ==
    /\ pc = "finish"
    /\ db' = [db EXCEPT !.status = "completed",
                        !.progress_percent = 100,
                        !.result_summary = <<[processed |-> processed, failed |-> failed]>>]
    /\ durable' = db'
    /\ hist' = [hist EXCEPT !.terminal = @ + 1]
    /\ pc' = "finally"
    /\ Frame
    /\ UNCHANGED <<conn, RunLocals, TripLocals, faults, runs>>

\* except Exception: self.mark_failed(str(e)); commit; raise
MarkFailed ==
    /\ pc = "except"
    /\ conn = "open"
    /\ db' = [db EXCEPT !.status = "failed", !.error_message = TRUE]
    /\ durable' = db'
    /\ hist' = [hist EXCEPT !.terminal = @ + 1]
    /\ pc' = "finally"
    /\ Frame
    /\ UNCHANGED <<conn, RunLocals, TripLocals, faults, runs>>

\* finally: self.disconnect(); what the connection had not committed is lost
Disconnect ==
    /\ pc = "finally"
    /\ conn' = "closed"
    /\ db' = durable
    /\ runs' = runs + 1
    /\ hist' = IF runs = 0 THEN [hist EXCEPT !.first = <<Derived(durable)>>] ELSE hist
    /\ pc' = "done"
    /\ Frame
    /\ UNCHANGED <<durable, RunLocals, TripLocals, faults>>

\* the same stage is run again, with the same task type, under a new task row
NextRun ==
    /\ pc = "done"
    /\ runs < MaxRuns
    /\ durable' = FreshTask(durable)
    /\ db' = durable'
    /\ conn' = "none"
    /\ hist' = [hist EXCEPT !.seen = [i \in Ids |-> 0], !.stale = FALSE,
                            !.refetched = FALSE, !.terminal = 0]
    /\ pc' = "init"
    /\ Frame
    /\ UNCHANGED <<RunLocals, TripLocals, faults, runs>>

\* ------------------------------- stay detection worker (DBSCAN): run()
\* __init__ opens the connection
DensityConstruct ==
    /\ pc = "init"
    /\ stage = "density"
    /\ conn' = "open"
    /\ db' = durable
    /\ pc' = "d_mark_running"
    /\ Frame
    /\ UNCHANGED <<durable, RunLocals, TripLocals, faults, runs, hist>>

DensityMarkRunning ==
    /\ pc = "d_mark_running"
    /\ db' = [db EXCEPT !.status = "running"]
    /\ durable' = db'
    /\ pc' = "d_process"
    /\ Frame
    /\ UNCHANGED <<conn, RunLocals, TripLocals, faults, runs, hist>>

\* load_data, process, save_results (with its commit): reached only when no
\* cluster passes the duration filter
DensityProcessSave ==
    /\ pc = "d_process"
    /\ ~DensityProcessRaises(LoadData)
    /\ db' = SaveResults(db, DensityProcess(LoadData))
    /\ durable' = db'
    /\ hist' = [hist EXCEPT !.labels = DensityLabels(LoadData), !.candidates = <<>>]
    /\ pc' = "d_complete"
    /\ Frame
    /\ UNCHANGED <<conn, RunLocals, TripLocals, faults, runs>>

\* load_data, process: the first cluster that passes the duration filter makes
\* process raise AttributeError; save_results is not reached
DensityProcessRaise ==
    /\ pc = "d_process"
    /\ DensityProcessRaises(LoadData)
    /\ hist' = [hist EXCEPT !.labels = DensityLabels(LoadData),
                            !.candidates = <<Head(DensityProcess(LoadData))>>]
    /\ pc' = "d_except"
    /\ Frame
    /\ UNCHANGED <<db, durable, conn, RunLocals, TripLocals, faults, runs>>

\* a statement of the try block raises: before save_results has executed
\* anything, or, when process returned (no stay dict was built, so there is
\* no INSERT), after its DELETE and before its commit
DensityFail ==
    /\ pc = "d_process"
    /\ faults < MaxFaults
    /\ \/ db' = db
       \/ /\ ~DensityProcessRaises(LoadData)
          /\ db' = SaveResults(db, <<>>)
    /\ faults' = faults + 1
    /\ pc' = "d_except"
    /\ Frame
    /\ UNCHANGED <<durable, conn, RunLocals, TripLocals, runs, hist>>

DensityMarkCompleted ==
    /\ pc = "d_complete"
    /\ db' = [db EXCEPT !.status = "completed", !.progress_percent = 100,
                        !.result_summary = <<[stays_detected |-> Len(db.stays)]>>]
    /\ durable' = db'
    /\ hist' = [hist EXCEPT !.terminal = @ + 1]
    /\ pc' = "d_finally"
    /\ Frame
    /\ UNCHANGED <<conn, RunLocals, TripLocals, faults, runs>>

\* except: mark_failed(error_msg) with its commit; return 1
DensityMarkFailed ==
    /\ pc = "d_except"
    /\ db' = [db EXCEPT !.status = "failed", !.error_message = TRUE]
    /\ durable' = db'
    /\ hist' = [hist EXCEPT !.terminal = @ + 1]
    /\ pc' = "d_finally"
    /\ Frame
    /\ UNCHANGED <<conn, RunLocals, TripLocals, faults, runs>>

\* finally: self.conn.close()
DensityClose ==
    /\ pc = "d_finally"
    /\ conn' = "closed"
    /\ db' = durable
    /\ runs' = runs + 1
    /\ hist' = IF runs = 0 THEN [hist EXCEPT !.first = <<Derived(durable)>>] ELSE hist
    /\ pc' = "done"
    /\ Frame
    /\ UNCHANGED <<durable, RunLocals, TripLocals, faults>>

\* ---------------------------------------------- trip construction worker
\* get_all_stays: ORDER BY start_time; rows of equal start_time come in either
\* id order
StayBefore(a, b, asc) ==
    \/ a.start_time < b.start_time
    \/ a.start_time = b.start_time /\ (IF asc THEN a.id < b.id ELSE a.id > b.id)

RECURSIVE SortStays(_, _)
SortStays(S, asc) ==
    IF S = {} THEN <<>>
    ELSE LET m == CHOOSE a \in S : \A b \in S \ {a} : StayBefore(a, b, asc)
         IN  <<m>> \o SortStays(S \ {m}, asc)

GetAllStays(d, asc) == SortStays(Range(d.stays), asc)

\* get_segments_between_stays
GetSegmentsBetweenStays(d, start_time, end_time) ==
    SelectSeq(d.segments, LAMBDA r : r.start_time >= start_time /\ r.end_time <= end_time)

\* classify_trip_type
ClassifyTripType_CountyFirst(origin_stay, dest_stay) ==
    IF origin_stay.county = dest_stay.county THEN "ROUND_TRIP"
    ELSE IF {origin_stay.activity_type, dest_stay.activity_type} = {"HOME", "WORK"}
    THEN "COMMUTE"
    ELSE "ONE_WAY"

ClassifyTripType(origin_stay, dest_stay) ==
    IF \/ origin_stay.activity_type = "HOME" /\ dest_stay.activity_type = "WORK"
       \/ origin_stay.activity_type = "WORK" /\ dest_stay.activity_type = "HOME"
    THEN "COMMUTE"
    ELSE IF origin_stay.county = dest_stay.county THEN "ROUND_TRIP"
    ELSE "ONE_WAY"

\* datetime.fromtimestamp(t).strftime('%Y-%m-%d'), as a day number
DateOf(t) == t \div 86400

\* the row of INSERT INTO trips for one pair of stays
TripRow(d, origin_stay, dest_stay, trip_number) ==
    LET segs == GetSegmentsBetweenStays(d, origin_stay.end_time, dest_stay.start_time)
    IN  [date           |-> DateOf(origin_stay.end_time),
         trip_number    |-> trip_number,
         origin_stay_id |-> origin_stay.id,
         dest_stay_id   |-> dest_stay.id,
         start_time     |-> origin_stay.end_time,
         end_time       |-> dest_stay.start_time,
         duration_s     |-> dest_stay.start_time - origin_stay.end_time,
         distance_m     |-> SumSeq([k \in 1..Len(segs) |-> segs[k].distance_m]),
         segment_count  |-> Len(segs),
         modes          |-> {segs[k].mode : k \in 1..Len(segs)},
         trip_type      |-> ClassifyTripType(origin_stay, dest_stay)]

\* trips_by_date[trip_date] after iteration i (Python index, from 0)
TripNumber(stays, i) ==
    Cardinality({j \in 0..i : DateOf(stays[j + 1].end_time) = DateOf(stays[i + 1].end_time)})

\* the trip built in iteration i of run(): origin stays[i], destination stays[i+1]
BuildTrip_Swapped(d, stays, i) == TripRow(d, stays[i + 2], stays[i + 1], TripNumber(stays, i))

BuildTrip(d, stays, i) == TripRow(d, stays[i + 1], stays[i + 2], TripNumber(stays, i))

\* run(): connect, get_task_info, mark_running, get_all_stays; with fewer than
\* two stays mark_completed and return
TripBegin ==
    /\ pc = "trip_init"
    /\ conn' = "open"
    /\ \E asc \in BOOLEAN : tstays' = GetAllStays(durable, asc)
    /\ ti' = 0
    /\ IF Len(tstays') < 2
       THEN /\ db' = [durable EXCEPT !.status = "completed", !.progress_percent = 100,
                                     !.result_summary = <<[trips_created |-> 0]>>]
            /\ hist' = [hist EXCEPT !.terminal = @ + 1, !.emitted = <<>>]
            /\ pc' = "trip_finally"
       ELSE /\ db' = [durable EXCEPT !.status = "running"]
            /\ hist' = [hist EXCEPT !.emitted = <<>>]
            /\ pc' = "trip_loop"
    /\ durable' = db'
    /\ Frame
    /\ UNCHANGED <<RunLocals, faults, runs>>

\* one iteration of for i in range(len(stays) - 1): INSERT INTO trips, and
\* update_progress (with its commit) every 100 trips
TripStep ==
    /\ pc = "trip_loop"
    /\ ti < Len(tstays) - 1
    /\ LET trip == WithId(BuildTrip(db, tstays, ti), LastRowId(db.trips))
           ins  == [db EXCEPT !.trips = Append(@, trip)]
       IN  /\ hist' = [hist EXCEPT !.emitted = Append(@, trip)]
           /\ IF (ti + 1) % 100 = 0
              THEN /\ db' = [ins EXCEPT !.processed_points = ti,
                                        !.progress_percent = (ti * 100) \div (Len(tstays) - 1)]
                   /\ durable' = db'
              ELSE /\ db' = ins
                   /\ durable' = durable
    /\ ti' = ti + 1
    /\ Frame
    /\ UNCHANGED <<conn, pc, tstays, RunLocals, faults, runs>>

\* after the loop: commit, mark_completed
TripFinish ==
    /\ pc = "trip_loop"
    /\ ti >= Len(tstays) - 1
    /\ db' = [db EXCEPT !.status = "completed", !.progress_percent = 100,
                        !.result_summary = <<[trips_created |-> ti]>>]
    /\ durable' = db'
    /\ hist' = [hist EXCEPT !.terminal = @ + 1]
    /\ pc' = "trip_finally"
    /\ Frame
    /\ UNCHANGED <<conn, RunLocals, TripLocals, faults, runs>>

\* finally: self.disconnect()
TripDisconnect ==
    /\ pc = "trip_finally"
    /\ conn' = "closed"
    /\ db' = durable
    /\ pc' = "trip_done"
    /\ Frame
    /\ UNCHANGED <<durable, RunLocals, TripLocals, faults, runs, hist>>

\* the pipeline goes on to trip construction once a stay stage has finished
StartTrip ==
    /\ pc = "done"
    /\ stage \in {"stay", "density"}
    /\ durable' = FreshTask(durable)
    /\ db' = durable'
    /\ conn' = "none"
    /\ hist' = [hist EXCEPT !.terminal = 0]
    /\ pc' = "trip_init"
    /\ Frame
    /\ UNCHANGED <<RunLocals, TripLocals, faults, runs>>

\* ------------------------------------------------------- specifications
Next ==
    \/ ConstructCrash
    \/ Construct
    \/ Connect
    \/ ConnectFail
    \/ GetTaskInfo
    \/ GetTaskInfoFail
    \/ MarkRunning
    \/ FetchBatch
    \/ FetchFail
    \/ ProcessBatch
    \/ ProcessBatchAbort
    \/ UpdateProgress
    \/ MarkCompleted
    \/ MarkFailed
    \/ Disconnect
    \/ NextRun
    \/ DensityConstruct
    \/ DensityMarkRunning
    \/ DensityProcessSave
    \/ DensityProcessRaise
    \/ DensityFail
    \/ DensityMarkCompleted
    \/ DensityMarkFailed
    \/ DensityClose
    \/ StartTrip
    \/ TripBegin
    \/ TripStep
    \/ TripFinish
    \/ TripDisconnect

Spec == Init /\ [][Next]_vars

\* the two stay detectors on their own: one run of the batch worker or of the
\* DBSCAN worker, database errors included, without the later trip stage
InitStay == Init /\ stage \in {"stay", "density"}

NextStay ==
    \/ Construct
    \/ Connect
    \/ ConnectFail
    \/ GetTaskInfo
    \/ GetTaskInfoFail
    \/ MarkRunning
    \/ FetchBatch
    \/ FetchFail
    \/ ProcessBatch
    \/ ProcessBatchAbort
    \/ UpdateProgress
    \/ MarkCompleted
    \/ MarkFailed
    \/ Disconnect
    \/ DensityConstruct
    \/ DensityMarkRunning
    \/ DensityProcessSave
    \/ DensityProcessRaise
    \/ DensityFail
    \/ DensityMarkCompleted
    \/ DensityMarkFailed
    \/ DensityClose

SpecStay == InitStay /\ [][NextStay]_vars

\* a trip construction run on its own, over any stay_segments table of at most
\* MaxStays rows and a segments table of one walk between the two start times
TripStayRows ==
    {[stay_type |-> "SPATIAL", start_time |-> st, end_time |-> st + DefaultMinDuration,
      duration_s |-> DefaultMinDuration, center_sum |-> 0, radius_x |-> 0,
      province |-> "P1", county |-> ac[2], point_count |-> 2, activity_type |-> ac[1]] :
     st \in {0, 9000},
     ac \in {<<"HOME", "K1">>, <<"WORK", "K1">>, <<"VISIT", "K2">>}}

TripStayTables ==
    UNION {{[k \in 1..n |-> WithId(f[k], k)] : f \in [1..n -> TripStayRows]} : n \in 0..MaxStays}

TripSegments ==
    <<[id |-> 1, mode |-> "WALK", start_time |-> 7200, end_time |-> 9000,
       start_point_id |-> 1, end_point_id |-> 2, point_count |-> 2,
       distance_m |-> 500, duration_s |-> 1800, max_speed_kmh |-> 0,
       confidence |-> 80, reason_codes |-> <<"WALKING_SPEED">>]>>

InitTrip ==
    /\ stage = "trip"
    /\ task = [task_type |-> "FULL_RECOMPUTE", total_points |-> NPoints, params |-> DefaultParams]
    /\ batch_size = NPoints
    /\ store = [id \in Ids |-> [dataTime |-> 1800 * (id - 1), pos |-> 0, speed |-> 0,
                                 altitude |-> 0, outlier_flag |-> FALSE]]
    /\ \E rows \in TripStayTables :
          durable = [EmptyTables EXCEPT !.stays = rows, !.segments = TripSegments]
    /\ db = durable
    /\ conn = "none"
    /\ pc = "trip_init"
    /\ processed = 0
    /\ failed = 0
    /\ batch = <<>>
    /\ batch_failed = 0
    /\ tstays = <<>>
    /\ ti = 0
    /\ faults = 0
    /\ runs = 0
    /\ hist = NoHistory

NextTrip ==
    \/ TripBegin
    \/ TripStep
    \/ TripFinish
    \/ TripDisconnect

SpecTrip == InitTrip /\ [][NextTrip]_vars

\* OutlierDetectionWorker.process_batch applied to one batch on an open
\* connection: as many points as one drift window, sampled at a fixed period,
\* the first at the origin; the accuracy is at or just above the threshold
OutlierIds == 1..(DriftLookback + 1)
OutlierPosSet == {0, 5, 10, 40, 400000}
OutlierPeriods == {0, 150, 151, 3600, 3601}
LowAccuracySets == {{}, OutlierIds}

OutlierTables ==
    [outlier_flag         |-> [i \in OutlierIds |-> "NULL"],
     outlier_reason_codes |-> [i \in OutlierIds |-> "NULL"],
     qa_status            |-> [i \in OutlierIds |-> "NULL"]]

InitOutlier ==
    /\ stage = "outlier"
    /\ task = [task_type |-> "INCREMENTAL", total_points |-> DriftLookback + 1,
               params |-> DefaultParams]
    /\ batch_size = DriftLookback + 1
    /\ \E pos \in {f \in [OutlierIds -> OutlierPosSet] : f[1] = 0},
          period \in OutlierPeriods, low \in LowAccuracySets :
          store = [i \in OutlierIds |->
                      [pos |-> pos[i], dataTime |-> period * (i - 1),
                       accuracy |-> IF i \in low THEN LOW_ACCURACY_THRESHOLD + 1
                                    ELSE LOW_ACCURACY_THRESHOLD,
                       speed |-> 0, altitude |-> 0]]
    /\ db = OutlierTables
    /\ durable = OutlierTables
    /\ conn = "open"
    /\ pc = "process_batch"
    /\ processed = 0
    /\ failed = 0
    /\ batch = [i \in OutlierIds |-> i]
    /\ batch_failed = 0
    /\ tstays = <<>>
    /\ ti = 0
    /\ faults = 0
    /\ runs = 0
    /\ hist = NoHistory

\* process_batch: every point annotated, but the points whose UPDATE raises
\* (counted as failed), then one commit
OutlierProcessBatch ==
    /\ stage = "outlier"
    /\ pc = "process_batch"
    /\ \E bad \in SUBSET Range(batch) :
          /\ Cardinality(bad) <= MaxFaults
          /\ db' = AnnotateBatch(db, batch, 1, bad)
          /\ batch_failed' = Cardinality(bad)
          /\ faults' = Cardinality(bad)
    /\ durable' = db'
    /\ pc' = "batch_done"
    /\ Frame
    /\ UNCHANGED <<conn, processed, failed, batch, TripLocals, runs, hist>>

NextOutlier == OutlierProcessBatch

SpecOutlier == InitOutlier /\ [][NextOutlier]_vars

\* TransportModeWorker.classify_point applied to a point without predecessor
\* and to its successor: altitudes and recorded speeds at the rule boundaries,
\* positions in one province, across the boundary, or without label, and gaps
\* at which the calculated speed is a whole number of km/h
ClassifyIds == 1..2
ClassifyAltitudes == {0, 1000, 1001, 9000}
ClassifySpeeds ==
    {0, 1, 9, 10, 19, 20, 79, 80, 119, 120, 121, 150, 199, 200, 350, 351, 700, 1000, 1001}
ClassifyFirstSpeeds == {0, 150}
ClassifyFirstPosSet == {0, 900000}
ClassifyPosSet == {0, 100000, 900000}
ClassifyGaps == {0, 2400, 3600}

InitClassify ==
    /\ stage = "mode"
    /\ task = [task_type |-> "INCREMENTAL", total_points |-> 2, params |-> DefaultParams]
    /\ batch_size = 2
    /\ \E p1 \in ClassifyFirstPosSet, s1 \in ClassifyFirstSpeeds, p2 \in ClassifyPosSet,
          gap \in ClassifyGaps, alt \in ClassifyAltitudes, s2 \in ClassifySpeeds :
          store = [i \in ClassifyIds |->
                      IF i = 1
                      THEN [pos |-> p1, dataTime |-> 0, speed |-> s1, altitude |-> 0,
                            outlier_flag |-> FALSE]
                      ELSE [pos |-> p2, dataTime |-> gap, speed |-> s2, altitude |-> alt,
                            outlier_flag |-> FALSE]]
    /\ db = EmptyTables
    /\ durable = EmptyTables
    /\ conn = "open"
    /\ pc = "classify"
    /\ processed = 0
    /\ failed = 0
    /\ batch = <<1, 2>>
    /\ batch_failed = 0
    /\ tstays = <<>>
    /\ ti = 0
    /\ faults = 0
    /\ runs = 0
    /\ hist = NoHistory

\* process_batch, first loop: classify_point for every point of the batch
ClassifyBatch ==
    /\ stage = "mode"
    /\ pc = "classify"
    /\ hist' = [hist EXCEPT !.result = Classifications(batch)]
    /\ pc' = "classified"
    /\ Frame
    /\ UNCHANGED <<db, durable, conn, RunLocals, TripLocals, faults, runs>>

NextClassify == ClassifyBatch

SpecClassify == InitClassify /\ [][NextClassify]_vars

\* StayDetectionWorker.detect_spatial_stays applied to one time-ordered batch:
\* positions around the 100 m radius, the first point at the origin
SpatialPosSet == {0, 60, 100, 160, 600}
SpatialGapSet == {3600, 7200}

InitSpatial ==
    /\ stage = "stay"
    /\ \E md \in MinDurationParams :
          task = [task_type |-> "INCREMENTAL", total_points |-> NPoints,
                  params |-> [mode |-> "spatial", min_duration_s |-> md]]
    /\ batch_size = NPoints
    /\ \E pos \in {f \in [Ids -> SpatialPosSet] : f[1] = 0},
          gap \in [Ids -> SpatialGapSet] :
          store = [i \in Ids |->
                      [pos |-> pos[i],
                       dataTime |-> SumSeq([k \in 1..(i - 1) |-> gap[k]]),
                       speed |-> 0, altitude |-> 0, outlier_flag |-> FALSE]]
    /\ \A i \in Ids : store[i].dataTime >= 0
    /\ db = EmptyTables
    /\ durable = EmptyTables
    /\ conn = "open"
    /\ pc = "detect"
    /\ processed = 0
    /\ failed = 0
    /\ batch = [i \in Ids |-> i]
    /\ batch_failed = 0
    /\ tstays = <<>>
    /\ ti = 0
    /\ faults = 0
    /\ runs = 0
    /\ hist = NoHistory

\* detect_spatial_stays(points) under the task's minimum duration
DetectSpatial ==
    /\ stage = "stay"
    /\ pc = "detect"
    /\ hist' = [hist EXCEPT !.result = DetectSpatialStays(batch, MinDurationOf(task.params))]
    /\ pc' = "detected"
    /\ Frame
    /\ UNCHANGED <<db, durable, conn, RunLocals, TripLocals, faults, runs>>

NextSpatial == DetectSpatial

SpecSpatial == InitSpatial /\ [][NextSpatial]_vars

\* --------------------------------------------------- stay annotation worker
DURATION_SHORT == 3600
DURATION_MEDIUM == 7200
DURATION_LONG == 14400
SecondsPerDay == 86400

\* get_time_of_day over TIME_OF_DAY (NIGHT wraps around midnight)
GetTimeOfDay(timestamp) ==
    LET hour == HourOf(timestamp)
    IN  IF hour >= 22 \/ hour < 6 THEN "NIGHT"
        ELSE IF 6 <= hour /\ hour < 12 THEN "MORNING"
        ELSE IF 12 <= hour /\ hour < 18 THEN "AFTERNOON"
        ELSE IF 18 <= hour /\ hour < 22 THEN "EVENING"
        ELSE "UNKNOWN"

\* is_meal_time over MEAL_TIMES; "None" when outside every window
IsMealTime(timestamp) ==
    LET hour == HourOf(timestamp)
    IN  IF 7 <= hour /\ hour < 9 THEN "BREAKFAST"
        ELSE IF 11 <= hour /\ hour < 13 THEN "LUNCH"
        ELSE IF 17 <= hour /\ hour < 19 THEN "DINNER"
        ELSE "None"

\* datetime.fromtimestamp(timestamp).weekday() < 5; 1970-01-01 is a Thursday (3)
IsWeekday(timestamp) == ((timestamp \div SecondsPerDay) + 3) % 7 < 5

\* f"{county or city or province}_{lat:.4f}_{lon:.4f}": the label and the
\* centre rounded to 0.0001 degree (11 m on the meridian)
LocationKeyOf(row) == <<row.county, (row.center_sum \div row.point_count) \div 11>>

\* process_stays, first pass: self.stay_frequency
StayFrequency(rows) ==
    [key \in {LocationKeyOf(rows[k]) : k \in 1..Len(rows)} |->
        Cardinality({k \in 1..Len(rows) : LocationKeyOf(rows[k]) = key})]

\* process_stays, second pass: the stay dict it builds from a row; the
\* location key stays in a local variable and is not put into the dict
StayDict(row) ==
    [id |-> row.id, start_time |-> row.start_time, end_time |-> row.end_time,
     duration_s |-> row.duration_s, center |-> row.center_sum \div row.point_count,
     province |-> row.province, county |-> row.county, stay_type |-> row.stay_type]

\* infer_stay_purpose: stay['location_key'] raises KeyError on a dict without
\* that key, before any rule is tested
InferStayPurpose(stay, stay_frequency) ==
    IF "location_key" \notin DOMAIN stay THEN "KeyError"
    ELSE LET start_time  == stay.start_time
             duration_s  == stay.duration_s
             frequency   == IF stay.location_key \in DOMAIN stay_frequency
                            THEN stay_frequency[stay.location_key] ELSE 1
             time_of_day == GetTimeOfDay(start_time)
             is_weekday  == IsWeekday(start_time)
             meal_time   == IsMealTime(start_time)
         IN  IF time_of_day = "NIGHT" /\ duration_s > DURATION_LONG /\ frequency > 10
             THEN "HOME"
             ELSE IF is_weekday /\ time_of_day \in {"MORNING", "AFTERNOON"}
                     /\ duration_s > DURATION_MEDIUM /\ frequency > 5
             THEN "WORK"
             ELSE IF meal_time # "None" /\ duration_s < DURATION_MEDIUM
             THEN "MEAL_" \o meal_time
             ELSE IF duration_s < DURATION_SHORT THEN "TRANSIT"
             ELSE IF (~is_weekday \/ time_of_day = "EVENING")
                     /\ DURATION_SHORT < duration_s /\ duration_s < DURATION_LONG
             THEN "VISIT"
             ELSE "UNKNOWN"

\* UPDATE stay_segments SET annotation_label, ..., metadata.annotation WHERE id
AnnotateRow(row, purpose) ==
    [f \in (DOMAIN row) \cup {"purpose"} |-> IF f = "purpose" THEN purpose ELSE row[f]]

\* process_stays, second pass over the rows: a row whose annotation raises is
\* logged, counted as failed and left as it was
AnnotateRows(rows) ==
    [k \in 1..Len(rows) |->
        LET purpose == InferStayPurpose(StayDict(rows[k]), StayFrequency(rows))
        IN  IF purpose = "KeyError" THEN rows[k] ELSE AnnotateRow(rows[k], purpose)]

FailedRows(rows) ==
    {k \in 1..Len(rows) :
        InferStayPurpose(StayDict(rows[k]), StayFrequency(rows)) = "KeyError"}

\* the stay_segments rows the annotation worker finds: two stays as the stay
\* detection worker stores them (confidence 0.85, metadata.activity_type from
\* classify_stay_type), one in each of two consecutive weeks
AnnotateHours == {0, 7, 10, 19}
AnnotateDays == {0, 2}
AnnotateDurations == {1800, 5400, 9000, 18000}
DaysPerWeek == 7

StoredStay(id, hour, day, duration_s) ==
    LET start_time == day * SecondsPerDay + hour * 3600
    IN  [id |-> id, stay_type |-> "SPATIAL",
         start_time |-> start_time, end_time |-> start_time + duration_s,
         duration_s |-> duration_s, center_sum |-> 0, radius_x |-> 0,
         province |-> ProvinceOf(0), county |-> CountyOf(0), point_count |-> 2,
         activity_type |-> ClassifyStayType(start_time, duration_s)]

InitAnnotate ==
    /\ stage = "annotate"
    /\ task = [task_type |-> "FULL_RECOMPUTE", total_points |-> NPoints,
               params |-> DefaultParams]
    /\ batch_size = NPoints
    /\ store = [i \in Ids |-> [pos |-> 0, dataTime |-> 0, speed |-> 0, altitude |-> 0,
                               outlier_flag |-> FALSE]]
    /\ \E h1, h2 \in AnnotateHours, d1, d2 \in AnnotateDays,
          u1, u2 \in AnnotateDurations :
          db = [EmptyTables EXCEPT
                  !.status = "running",
                  !.stays = <<StoredStay(1, h1, d1, u1),
                              StoredStay(2, h2, d2 + DaysPerWeek, u2)>>]
    /\ durable = db
    /\ conn = "open"
    /\ pc = "process_stays"
    /\ processed = 0
    /\ failed = 0
    /\ batch = <<>>
    /\ batch_failed = 0
    /\ tstays = <<>>
    /\ ti = 0
    /\ faults = 0
    /\ runs = 0
    /\ hist = NoHistory

\* process_stays: both passes and the final commit
ProcessStays ==
    /\ stage = "annotate"
    /\ pc = "process_stays"
    /\ db' = [db EXCEPT !.stays = AnnotateRows(db.stays)]
    /\ durable' = db'
    /\ processed' = Len(db.stays) - Cardinality(FailedRows(db.stays))
    /\ failed' = Cardinality(FailedRows(db.stays))
    /\ pc' = "annotated"
    /\ Frame
    /\ UNCHANGED <<conn, batch, batch_failed, TripLocals, faults, runs, hist>>

NextAnnotate == ProcessStays

SpecAnnotate == InitAnnotate /\ [][NextAnnotate]_vars

\* ------------------------------- trajectory completion worker: the run loop
\* the batch loop of run() with the worker's process_batch, from the state
\* mark_running leaves: observed points only, is_synthetic NULL everywhere
GapPosSet == {0, 120000, 150000, 900000}
GapAltitudes == {0, 1000, 10000}
GapPeriods == {3600, 5400}

GapTables ==
    [is_synthetic |-> [i \in Ids |-> "NULL"], synthetic |-> <<>>]
        @@ [EmptyTables EXCEPT !.status = "running"]

InitGap ==
    /\ stage = "gap"
    /\ \E tt \in TaskTypes :
          task = [task_type |-> tt, total_points |-> NPoints, params |-> DefaultParams]
    /\ batch_size \in {NPoints - 1, NPoints}
    /\ \E pos \in {f \in [Ids -> GapPosSet] : f[1] = 0},
          alt \in {f \in [Ids -> GapAltitudes] : f[1] = 0},
          period \in [1..(NPoints - 1) -> GapPeriods] :
          store = [i \in Ids |->
                      [pos |-> pos[i], dataTime |-> TimeAt(period, i), speed |-> 0,
                       altitude |-> alt[i], outlier_flag |-> FALSE]]
    /\ db = GapTables
    /\ durable = GapTables
    /\ conn = "open"
    /\ pc = "loop"
    /\ processed = 0
    /\ failed = 0
    /\ batch = <<>>
    /\ batch_failed = 0
    /\ tstays = <<>>
    /\ ti = 0
    /\ faults = 0
    /\ runs = 0
    /\ hist = NoHistory

\* run(): while processed < total: points = get_unanalyzed_points();
\* if not points: break
GapFetchBatch ==
    /\ stage = "gap"
    /\ pc = "loop"
    /\ LET points == GapUnanalyzedPoints(db, task.task_type, batch_size)
       IN  IF processed < task.total_points /\ points # <<>>
           THEN batch' = points /\ pc' = "process"
           ELSE batch' = <<>> /\ pc' = "finish"
    /\ Frame
    /\ UNCHANGED <<db, durable, conn, processed, failed, batch_failed, TripLocals,
                   faults, runs, hist>>

\* process_batch with its commit, and run()'s counters: the INSERTs of one
\* determined gap may raise after failat rows (failed += 1), the UPDATEs of the
\* points in bad may raise (failed += 1 each)
GapProcessBatch ==
    /\ stage = "gap"
    /\ pc = "process"
    /\ LET points == PointDicts(db, batch)
           gaps   == DetectGaps(points)
       IN  \E failgap \in 0..Len(gaps), bad \in SUBSET Range(batch) :
             LET time_diff == IF failgap = 0 THEN 0
                              ELSE points[gaps[failgap] + 1].dataTime
                                     - points[gaps[failgap]].dataTime
                 raised    == (IF failgap = 0 THEN 0 ELSE 1) + Cardinality(bad)
             IN  /\ failgap # 0 =>
                        IdentifyTransportType(GapWindow(points, gaps[failgap])) # "None"
                 /\ faults + raised <= MaxFaults
                 /\ \E failat \in 0..(IF failgap = 0 THEN 0 ELSE NumPoints(time_diff) - 1) :
                        db' = GapProcess(db, batch, failgap, failat, bad)
                 /\ batch_failed' = raised
                 /\ failed' = failed + raised
                 /\ faults' = faults + raised
    /\ durable' = db'
    /\ processed' = processed + Len(batch)
    /\ hist' = Seen(hist, batch)
    /\ pc' = "progress"
    /\ Frame
    /\ UNCHANGED <<conn, batch, TripLocals, runs>>

NextGap ==
    \/ GapFetchBatch
    \/ GapProcessBatch
    \/ UpdateProgress
    \/ MarkCompleted
    \/ Disconnect

SpecGap == InitGap /\ [][NextGap]_vars

\* the same run loop over the same stores with the whole store in one batch
\* and a database that raises no error
InitGapType ==
    /\ stage = "gap"
    /\ \E tt \in TaskTypes :
          task = [task_type |-> tt, total_points |-> NPoints, params |-> DefaultParams]
    /\ batch_size = NPoints
    /\ \E pos \in {f \in [Ids -> GapPosSet] : f[1] = 0},
          alt \in {f \in [Ids -> GapAltitudes] : f[1] = 0},
          period \in [1..(NPoints - 1) -> GapPeriods] :
          store = [i \in Ids |->
                      [pos |-> pos[i], dataTime |-> TimeAt(period, i), speed |-> 0,
                       altitude |-> alt[i], outlier_flag |-> FALSE]]
    /\ db = GapTables
    /\ durable = GapTables
    /\ conn = "open"
    /\ pc = "loop"
    /\ processed = 0
    /\ failed = 0
    /\ batch = <<>>
    /\ batch_failed = 0
    /\ tstays = <<>>
    /\ ti = 0
    /\ faults = MaxFaults
    /\ runs = 0
    /\ hist = NoHistory

SpecGapType == InitGapType /\ [][NextGap]_vars

\* ------------------------------- batch workers on a store with a NULL row
\* the run loop of the transport-mode worker and of the stay worker (spatial
\* strategy), entered with the task marked running, over a store in which one
\* row has no coordinates
NullStores ==
    {[s EXCEPT ![n].pos = NullPos] :
        s \in Stores({[k \in Ids |-> k]}, {{}}), n \in Ids}

InitDataError ==
    /\ db = [EmptyTables EXCEPT !.status = "running"]
    /\ durable = db
    /\ conn = "open"
    /\ pc = "loop"
    /\ processed = 0
    /\ failed = 0
    /\ batch = <<>>
    /\ batch_failed = 0
    /\ tstays = <<>>
    /\ ti = 0
    /\ faults = 0
    /\ runs = 0
    /\ hist = NoHistory
    /\ stage \in BatchStages
    /\ store \in NullStores
    /\ batch_size \in Ids
    /\ \E tt \in TaskTypes :
          task = [task_type |-> tt, total_points |-> NPoints, params |-> DefaultParams]

NextDataError ==
    \/ FetchBatch
    \/ ProcessBatch
    \/ ProcessBatchDataError
    \/ UpdateProgress
    \/ MarkCompleted
    \/ Disconnect

SpecDataError == InitDataError /\ [][NextDataError]_vars


\* --------------------------- transport-mode worker on recorded speeds
\* the run loop of the transport-mode worker, entered with the task marked
\* running: the points stand still in one province, 30 minutes apart, so the
\* mode of a point is decided by its recorded speed (STAY, CAR 0.75, CAR 0.70);
\* ids in time order or with a late-arriving point
SegmentSpeeds == {0, 50, 100}
SegmentPeriod == 1800

SegmentStores ==
    {[id \in Ids |->
        [dataTime     |-> SegmentPeriod * (Rank(order, id) - 1),
         pos          |-> 0,
         speed        |-> sp[id],
         altitude     |-> 0,
         outlier_flag |-> FALSE]] :
     order \in TimeOrders, sp \in [Ids -> SegmentSpeeds]}

InitSegment ==
    /\ db = [EmptyTables EXCEPT !.status = "running"]
    /\ durable = db
    /\ conn = "open"
    /\ pc = "loop"
    /\ processed = 0
    /\ failed = 0
    /\ batch = <<>>
    /\ batch_failed = 0
    /\ tstays = <<>>
    /\ ti = 0
    /\ faults = 0
    /\ runs = 0
    /\ hist = NoHistory
    /\ stage = "mode"
    /\ store \in SegmentStores
    /\ batch_size \in {NPoints - 1, NPoints}
    /\ \E tt \in TaskTypes :
          task = [task_type |-> tt, total_points |-> NPoints, params |-> DefaultParams]

NextSegment ==
    \/ FetchBatch
    \/ ProcessBatch
    \/ UpdateProgress
    \/ MarkCompleted
    \/ Disconnect

SpecSegment == InitSegment /\ [][NextSegment]_vars

\* ------------------------------ IncrementalAnalyzer.run, any subclass
\* the batch loop of the base class with process_batch left open, as the
\* base class leaves it: a call sets the stage field of any set of points
\* (none: the batch stays unanalyzed and is fetched again), and returns any
\* failed count up to the batch length, or raises
LoopStores ==
    {s \in SegmentStores : \A i \in Ids : s[i].speed = 0}

InitLoop ==
    /\ db = [EmptyTables EXCEPT !.status = "running"]
    /\ durable = db
    /\ conn = "open"
    /\ pc = "loop"
    /\ processed = 0
    /\ failed = 0
    /\ batch = <<>>
    /\ batch_failed = 0
    /\ tstays = <<>>
    /\ ti = 0
    /\ faults = 0
    /\ runs = 0
    /\ hist = NoHistory
    /\ stage = "mode"
    /\ store \in LoopStores
    /\ batch_size \in Ids
    /\ \E tt \in TaskTypes :
          task = [task_type |-> tt, total_points |-> NPoints, params |-> DefaultParams]

\* run() without 'processed += len(points)' after the batch
ProcessBatchAny_NoCount ==
    /\ pc = "process"
    /\ \E marked \in SUBSET Ids, f \in 0..Len(batch) :
          /\ db' = [db EXCEPT !.segment_id =
                        [i \in Ids |-> IF i \in marked THEN 1 ELSE @[i]]]
          /\ batch_failed' = f
          /\ failed' = failed + f
    /\ processed' = processed
    /\ hist' = Seen(hist, batch)
    /\ pc' = "progress"
    /\ Frame
    /\ UNCHANGED <<durable, conn, batch, TripLocals, faults, runs>>

\* batch_failed = self.process_batch(points); processed += len(points);
\* failed += batch_failed
ProcessBatchAny ==
    /\ pc = "process"
    /\ \E marked \in SUBSET Ids, f \in 0..Len(batch) :
          /\ db' = [db EXCEPT !.segment_id =
                        [i \in Ids |-> IF i \in marked THEN 1 ELSE @[i]]]
          /\ batch_failed' = f
          /\ failed' = failed + f
    /\ processed' = processed + Len(batch)
    /\ hist' = Seen(hist, batch)
    /\ pc' = "progress"
    /\ Frame
    /\ UNCHANGED <<durable, conn, batch, TripLocals, faults, runs>>

\* process_batch raises (the base class method does): run()'s except clause
ProcessBatchRaise ==
    /\ pc = "process"
    /\ pc' = "except"
    /\ hist' = Seen(hist, batch)
    /\ Frame
    /\ UNCHANGED <<db, durable, conn, RunLocals, TripLocals, faults, runs>>

NextLoop ==
    \/ FetchBatch
    \/ FetchFail
    \/ ProcessBatchAny
    \/ ProcessBatchRaise
    \/ UpdateProgress
    \/ MarkCompleted
    \/ MarkFailed
    \/ Disconnect

\* fairness of a sequential program: run() keeps executing its next
\* statement until it returns
SpecLoop == InitLoop /\ [][NextLoop]_vars /\ WF_vars(NextLoop)


\* ---------------------------------------------------------- properties
NonOutliers == {i \in Ids : ~store[i].outlier_flag}

Overlap(a, b) == a.start_time <= b.end_time /\ b.start_time <= a.end_time

RunOver == pc \in {"done", "crashed", "trip_done"}

\* C1: after a finished, fault-free transport mode run every non-outlier point references
\* exactly one segment row, no outlier point references a segment, the segment
\* rows are in time order and pairwise non-overlapping, and the points that
\* reference the segments are exactly the non-outlier points, each segment
\* holding point_count of them.
C1_SegmentsCoverNonOutliers ==
    (stage = "mode" /\ pc = "done" /\ faults = 0 /\ durable.status = "completed") =>
        LET segs == durable.segments
            refs(k) == {i \in Ids : durable.segment_id[i] = segs[k].id}
        IN  /\ \A i \in NonOutliers :
                  Cardinality({k \in 1..Len(segs) : segs[k].id = durable.segment_id[i]}) = 1
            /\ \A i \in Ids \ NonOutliers : durable.segment_id[i] = NoRef
            /\ \A k \in 1..Len(segs) : Cardinality(refs(k)) = segs[k].point_count
            /\ \A k \in 1..Len(segs), m \in 1..Len(segs) :
                  k < m => segs[k].end_time < segs[m].start_time
            /\ UNION {refs(k) : k \in 1..Len(segs)} = NonOutliers

\* C2: in every state of the stay_segments table reached by running the batch
\* stay detector without a database error, no two rows of the same strategy tag overlap in time.
C2_StaysOfOneStrategyDisjoint ==
    (stage = "stay" /\ faults = 0) =>
        \A k \in 1..Len(durable.stays), m \in 1..Len(durable.stays) :
            (k < m /\ durable.stays[k].stay_type = durable.stays[m].stay_type)
                => ~Overlap(durable.stays[k], durable.stays[m])

\* the stays a strategy has emitted: the rows of stay_segments, and the stay
\* the DBSCAN worker was building from a cluster that passed its duration filter
EmittedStays == db.stays \o hist.candidates

C4_OneTripPerConsecutivePair ==
    pc = "trip_done" =>
        /\ durable.status = "completed"
        /\ Range(tstays) = Range(durable.stays)
        /\ \A k \in 1..(Len(tstays) - 1) : tstays[k].start_time <= tstays[k + 1].start_time
        /\ durable.trips = hist.emitted
        /\ IF Len(tstays) >= 2
           THEN /\ Len(hist.emitted) = Len(tstays) - 1
                /\ \A k \in 1..Len(hist.emitted) :
                      /\ hist.emitted[k].origin_stay_id = tstays[k].id
                      /\ hist.emitted[k].dest_stay_id = tstays[k + 1].id
                      /\ hist.emitted[k].start_time = tstays[k].end_time
                      /\ hist.emitted[k].end_time = tstays[k + 1].start_time
           ELSE hist.emitted = <<>>

\* C4 witness: a run over three stays has finished with two trips
C4_Witness ==
    pc = "trip_done" /\ Len(tstays) = 3 /\ Len(durable.trips) = 2

\* C5: every trip row built from stays that the stay detector wrote without a
\* database error has start_time <= end_time and a duration >= 0.
C5_TripStartBeforeEnd ==
    faults = 0 => \A k \in 1..Len(durable.trips) :
        /\ durable.trips[k].start_time <= durable.trips[k].end_time
        /\ durable.trips[k].duration_s >= 0

\* C6: after two fault-free FULL_RECOMPUTE runs of a stage in a row, the
\* derived rows and per-point fields are those left by the first run.
C6_FullRecomputeIdempotent ==
    (pc = "done" /\ runs = 2 /\ faults = 0 /\ task.task_type = "FULL_RECOMPUTE"
        /\ durable.status = "completed")
        => Derived(durable) = hist.first[1]

\* C7: a fault-free FULL_RECOMPUTE run of a batch stage starts from cleared
\* derived state and has processed every point of the store exactly once.
C7_FullRecomputeClearsAndCoversOnce ==
    (pc = "done" /\ stage \in BatchStages /\ faults = 0
        /\ task.task_type = "FULL_RECOMPUTE" /\ durable.status = "completed")
        => /\ ~hist.stale
           /\ \A i \in Ids : hist.seen[i] = 1

\* C8: in a fault-free INCREMENTAL run no fetched batch holds a point whose field for
\* the running stage (stay_id for the stay detector, segment_id for the
\* classifier) is already set.
C8_IncrementalFetchesOnlyUnset ==
    (task.task_type = "INCREMENTAL" /\ faults = 0) => ~hist.refetched

\* C9: when the worker process is over, the task row carries exactly one
\* terminal status, written once: completed with a summary or failed with a
\* message.
C9_ExactlyOneTerminalStatus ==
    RunOver =>
        /\ hist.terminal = 1
        /\ \/ durable.status = "completed" /\ durable.result_summary # <<>>
           \/ durable.status = "failed" /\ durable.error_message

\* C10: no row inserted by a process_batch call that aborted is ever committed.
C10_NoPartialBatchDurable ==
    /\ \A k \in 1..Len(durable.segments) : durable.segments[k].id \notin hist.partial_seg
    /\ \A k \in 1..Len(durable.stays) : durable.stays[k].id \notin hist.partial_stay

\* ------------------------------------------- properties: outlier detector
\* the reason codes stored for a point, as a set
StoredCodes(i) ==
    IF durable.outlier_reason_codes[i] = "NULL" THEN {}
    ELSE Range(durable.outlier_reason_codes[i])

Annotated(i) == durable.qa_status[i] # "NULL"

\* C11: for every point the outlier detector has annotated, outlier_flag is
\* true iff it has a reason code; qa_status is PASS iff it has none, WARNING
\* iff LOW_ACCURACY is its only code, FAIL iff it has any of JUMP, BACKTRACK,
\* STATIC_DRIFT.
C11_QaStatusFromReasonCodes ==
    pc = "batch_done" => \A i \in OutlierIds : Annotated(i) =>
        /\ durable.outlier_flag[i] \in BOOLEAN
        /\ durable.outlier_flag[i] <=> StoredCodes(i) # {}
        /\ StoredCodes(i) \subseteq {"LOW_ACCURACY", "JUMP", "BACKTRACK", "STATIC_DRIFT"}
        /\ durable.qa_status[i] \in {"PASS", "WARNING", "FAIL"}
        /\ durable.qa_status[i] = "PASS" <=> StoredCodes(i) = {}
        /\ durable.qa_status[i] = "WARNING" <=> StoredCodes(i) = {"LOW_ACCURACY"}
        /\ durable.qa_status[i] = "FAIL"
              <=> StoredCodes(i) \cap {"JUMP", "BACKTRACK", "STATIC_DRIFT"} # {}

\* C11 witness: one batch has a point with no code, one with LOW_ACCURACY and
\* JUMP together, and (another batch) LOW_ACCURACY alone
C11_Witness ==
    /\ pc = "batch_done"
    /\ \E i \in OutlierIds : durable.qa_status[i] = "WARNING"
    /\ \E i \in OutlierIds :
          durable.qa_status[i] = "FAIL" /\ {"LOW_ACCURACY", "JUMP"} \subseteq StoredCodes(i)

\* the 3-point window [A, B, A'] that ends at the i-th point of the batch
LegAB(i) == Dist(store[i - 2].pos, store[i - 1].pos)
LegBA(i) == Dist(store[i - 1].pos, store[i].pos)
LegAA(i) == Dist(store[i - 2].pos, store[i].pos)
ElapsedAA(i) == store[i].dataTime - store[i - 2].dataTime

\* C12 (as stated): an annotated point carries BACKTRACK exactly when it ends
\* a 3-point window [A,B,A'] with distance(A,A') <= 50 m, elapsed(A,A') <=
\* 300 s and both distance(A,B) and distance(B,A') above 10 m; a leg of
\* exactly 10 m is not flagged.
C12_BacktrackLegsExceedTen ==
    pc = "batch_done" => \A i \in OutlierIds : Annotated(i) =>
        ("BACKTRACK" \in StoredCodes(i)
            <=> /\ i >= 3
                /\ LegAA(i) <= 50
                /\ ElapsedAA(i) <= 300
                /\ LegAB(i) > 10
                /\ LegBA(i) > 10)

\* C12 (amended): as above with both legs at least 10 m: a leg of exactly
\* 10 m is flagged, a shorter one is not.
C12_BacktrackLegsAtLeastTen ==
    pc = "batch_done" => \A i \in OutlierIds : Annotated(i) =>
        ("BACKTRACK" \in StoredCodes(i)
            <=> /\ i >= 3
                /\ LegAA(i) <= 50
                /\ ElapsedAA(i) <= 300
                /\ LegAB(i) >= 10
                /\ LegBA(i) >= 10)

\* C12 witness: one batch holds a flagged window whose legs are exactly 10 m
\* and 300 s long, and an unflagged window with shorter legs
C12_Witness ==
    /\ pc = "batch_done"
    /\ \E i \in OutlierIds :
          /\ i >= 3 /\ "BACKTRACK" \in StoredCodes(i)
          /\ LegAB(i) = 10 /\ LegBA(i) = 10 /\ ElapsedAA(i) = 300
    /\ \E i \in OutlierIds :
          /\ i >= 3 /\ Annotated(i) /\ "BACKTRACK" \notin StoredCodes(i)
          /\ LegAB(i) = 5 /\ LegAA(i) = 0

\* the window of points a..b of the batch: every point within the drift
\* distance of the centroid, boundary included, and not all positions equal
DriftWindow(a, b) ==
    LET n   == b - a + 1
        sum == SumSeq([k \in 1..n |-> store[a + k - 1].pos])
    IN  /\ \A k \in a..b : Abs(n * store[k].pos - sum) <= 20 * n
        /\ \E k \in a..b : store[k].pos # store[a].pos

\* C13: after a batch without failed updates, every point of every window of
\* at least 3 consecutive points that lie within 20 m of the window centroid
\* and are not all identical carries STATIC_DRIFT, and no point of a batch of
\* identical positions does.
C13_StaticDriftFlagsWindow ==
    (pc = "batch_done" /\ faults = 0) =>
        /\ \A a \in OutlierIds, b \in OutlierIds :
              (b - a + 1 >= 3 /\ DriftWindow(a, b))
                  => \A k \in a..b : "STATIC_DRIFT" \in StoredCodes(k)
        /\ (\A k \in OutlierIds : store[k].pos = store[1].pos)
              => \A k \in OutlierIds : "STATIC_DRIFT" \notin StoredCodes(k)

\* C14: an annotated point carries JUMP exactly when it has a predecessor in
\* the batch, the elapsed time to it is at most 3600 s and the implied speed
\* 3.6 * metres / seconds exceeds 300 km/h (a zero elapsed time implies speed
\* 0); beyond 3600 s JUMP is never set.
C14_JumpWithinTheHour ==
    pc = "batch_done" => \A i \in OutlierIds : Annotated(i) =>
        ("JUMP" \in StoredCodes(i)
            <=> /\ i > 1
                /\ store[i].dataTime - store[i - 1].dataTime <= 3600
                /\ store[i].dataTime - store[i - 1].dataTime > 0
                /\ 36 * Dist(store[i - 1].pos, store[i].pos)
                      > 3000 * (store[i].dataTime - store[i - 1].dataTime))

\* C14 witness: a point exactly 3600 s after its predecessor is flagged, and
\* a slower one of the same batch is not
C14_Witness ==
    /\ pc = "batch_done"
    /\ store[2].dataTime - store[1].dataTime = 3600
    /\ \E i \in OutlierIds : "JUMP" \in StoredCodes(i)
    /\ \E i \in OutlierIds : i > 1 /\ Annotated(i) /\ "JUMP" \notin StoredCodes(i)

\* ------------------------------------------ properties: mode classifier
\* the speed input of the k-th classified point in whole km/h: the larger of
\* the recorded speed and 3.6 * metres / seconds to the previous point (0 when
\* there is none or the timestamps are equal)
InputSpeed(k) ==
    LET dt == IF k = 1 THEN 0 ELSE store[k].dataTime - store[k - 1].dataTime
    IN  IF dt = 0 THEN store[k].speed
        ELSE Max2(store[k].speed,
                  (36 * Dist(store[k - 1].pos, store[k].pos)) \div (10 * dt))

ProvinceDiffers(k) ==
    /\ k > 1
    /\ ProvinceOf(store[k].pos) # "NULL"
    /\ ProvinceOf(store[k - 1].pos) # "NULL"
    /\ ProvinceOf(store[k].pos) # ProvinceOf(store[k - 1].pos)

\* the cascade of the claim: mode and confidence (hundredths)
ReferenceCascade(altitude, speed, crossing) ==
    IF altitude > 1000 /\ speed >= 200 /\ speed <= 1000 THEN <<"FLIGHT", 95>>
    ELSE IF speed >= 80 /\ speed <= 350
    THEN (IF crossing THEN <<"TRAIN", 85>> ELSE <<"CAR", 70>>)
    ELSE IF speed >= 20 /\ speed < 120 THEN <<"CAR", 75>>
    ELSE IF speed >= 1 /\ speed < 10 THEN <<"WALK", 80>>
    ELSE IF speed < 1 THEN <<"STAY", 90>>
    ELSE <<"UNKNOWN", 50>>

C16_TrainOnlyAcrossProvinces ==
    pc = "classified" => \A k \in 1..Len(hist.result) :
        LET c == hist.result[k].c
        IN  (/\ InputSpeed(k) >= 80 /\ InputSpeed(k) <= 350
             /\ ~(store[k].altitude > 1000 /\ InputSpeed(k) >= 200))
            => IF ProvinceDiffers(k)
               THEN c.mode = "TRAIN" /\ c.confidence = 85
               ELSE c.mode = "CAR" /\ c.confidence = 70
                    /\ c.reason_codes = <<"HIGH_SPEED">>

\* C16 witness: at 150 km/h the pair that crosses a province boundary is
\* TRAIN, and the first point, which has no predecessor, is CAR
C16_Witness ==
    /\ pc = "classified"
    /\ InputSpeed(1) = 150 /\ hist.result[1].c.mode = "CAR"
    /\ InputSpeed(2) = 150 /\ ProvinceDiffers(2) /\ hist.result[2].c.mode = "TRAIN"

\* ------------------------------------------- properties: SPATIAL stays
\* the first point of the candidate group that point k (in time order)
\* belongs to: point k joins the group of point k-1 iff it lies within 100 m
\* of the mean position of that group's points so far
RECURSIVE GroupStart(_)
GroupStart(k) ==
    IF k = 1 THEN 1
    ELSE LET s   == GroupStart(k - 1)
             n   == k - s
             sum == SumSeq([j \in 1..n |-> store[s + j - 1].pos])
         IN  IF Abs(n * store[k].pos - sum) <= 100 * n THEN s ELSE k

\* the candidate groups <<first, last>> whose time span reaches the minimum
ExpectedGroups ==
    {<<GroupStart(e), e>> : e \in {k \in Ids :
        /\ k = NPoints \/ GroupStart(k + 1) = k + 1
        /\ store[k].dataTime - store[GroupStart(k)].dataTime >= MinDurationOf(task.params)}}

\* C17: detect_spatial_stays returns, in time order, exactly one stay per
\* candidate group whose span reaches the minimum duration, a group being a
\* maximal run in which every point lies within 100 m of the running
\* centroid of the points before it, and a rejected point opening the next.
C17_SpatialGroupsByRunningCentroid ==
    pc = "detected" =>
        /\ Len(hist.result) = Cardinality(ExpectedGroups)
        /\ \A g \in ExpectedGroups : \E k \in 1..Len(hist.result) :
              /\ hist.result[k].start_time = store[g[1]].dataTime
              /\ hist.result[k].end_time = store[g[2]].dataTime
              /\ hist.result[k].point_count = g[2] - g[1] + 1
              /\ hist.result[k].duration_s = store[g[2]].dataTime - store[g[1]].dataTime
              /\ hist.result[k].stay_type = "SPATIAL"
        /\ \A k \in 1..(Len(hist.result) - 1) :
              hist.result[k].end_time < hist.result[k + 1].start_time

\* C17 witness: all points but the last lie within 60 m of each other, the
\* last 500 m or more away, and exactly one stay of the first points came out
C17_Witness ==
    /\ pc = "detected"
    /\ \A i \in Ids : i < NPoints => store[i].pos <= 60
    /\ \E i \in Ids : store[i].pos = 60
    /\ store[NPoints].pos = 600
    /\ Len(hist.result) = 1
    /\ hist.result[1].point_count = NPoints - 1

\* ------------------------------------------- properties: DENSITY stays
\* the labels the DBSCAN worker's process() ended with, by position in the
\* loaded point list, and the time gap before the k-th member of a group
GroupLabels == {hist.labels[j] : j \in 1..Len(hist.labels)} \ {-1}

GapBefore(mem, k) ==
    store[LoadData[mem[k]]].dataTime - store[LoadData[mem[k - 1]]].dataTime

\* C18: after the temporal split no candidate group holds two temporally
\* adjacent members more than the maximum gap (3600 s) apart: a cluster is
\* split at every such gap.
C18_SplitAtEveryGap ==
    \A l \in GroupLabels :
        LET mem == Members(hist.labels, l, 1)
        IN  \A k \in 2..Len(mem) : GapBefore(mem, k) <= 3600

\* the loaded points lie within 50 m of each other, are at least min_samples
\* many, have no time gap above the maximum and span the minimum duration
CloseTogether ==
    /\ Len(LoadData) >= DensityMinSamples
    /\ \A i, j \in 1..Len(LoadData) :
          Dist(store[LoadData[i]].pos, store[LoadData[j]].pos) <= 50
    /\ \A k \in 2..Len(LoadData) :
          store[LoadData[k]].dataTime - store[LoadData[k - 1]].dataTime <= DensityMaxTimeGap
    /\ Duration(LoadData) >= DensityMinDuration

\* C19: with eps = 200 m and minPts = 3, a fault-free run of the DBSCAN
\* worker over points that lie within 50 m of each other puts all of them in
\* one cluster and stores one Stay whose point_count is their number.
C19_ClusterWithinEpsMetres ==
    (stage = "density" /\ pc = "done" /\ faults = 0 /\ CloseTogether) =>
        /\ \A j \in 1..Len(hist.labels) :
              hist.labels[j] # -1 /\ hist.labels[j] = hist.labels[1]
        /\ Len(durable.stays) = 1
        /\ durable.stays[1].point_count = Len(LoadData)

\* ------------------------------------------- properties: activity type
\* the activity-type cascade, in its fixed priority order
ActivityCascade(hour, weekday, duration_s, frequency) ==
    IF (hour >= 22 \/ hour < 6) /\ duration_s > 14400 /\ frequency > 10 THEN "HOME"
    ELSE IF weekday /\ 9 <= hour /\ hour < 18 /\ duration_s > 7200 /\ frequency > 5
    THEN "WORK"
    ELSE IF 7 <= hour /\ hour < 9 /\ duration_s < 7200 THEN "MEAL_BREAKFAST"
    ELSE IF 11 <= hour /\ hour < 13 /\ duration_s < 7200 THEN "MEAL_LUNCH"
    ELSE IF 17 <= hour /\ hour < 19 /\ duration_s < 7200 THEN "MEAL_DINNER"
    ELSE IF duration_s < 3600 THEN "TRANSIT"
    ELSE IF (~weekday \/ (18 <= hour /\ hour < 22))
            /\ 3600 <= duration_s /\ duration_s <= 14400
    THEN "VISIT"
    ELSE "UNKNOWN"

\* the cascade's result for a stored stay, its frequency being the number of
\* stored stays at its location
CascadeOf(row) ==
    ActivityCascade(HourOf(row.start_time),
                    ((row.start_time \div 86400) + 3) % 7 < 5,
                    row.duration_s,
                    Cardinality({k \in 1..Len(db.stays) :
                        /\ db.stays[k].county = row.county
                        /\ db.stays[k].center_sum * row.point_count
                             = row.center_sum * db.stays[k].point_count}))

\* C20: once the stays have been annotated, the activity type stored with
\* every stay (the purpose of its annotation, and the activity type written
\* when it was detected) is the result of the cascade for its start hour,
\* weekday, duration and frequency.
C20_ActivityTypeIsTheCascade ==
    (stage = "annotate" /\ pc = "annotated") =>
        \A k \in 1..Len(db.stays) :
            /\ "purpose" \in DOMAIN db.stays[k]
            /\ db.stays[k].purpose = CascadeOf(db.stays[k])
            /\ db.stays[k].activity_type = CascadeOf(db.stays[k])

\* ------------------------------------------------ properties: trip type
\* the stored stay a trip row refers to
StayById(id) == CHOOSE r \in Range(db.stays) : r.id = id

TripActivities(trip) ==
    {StayById(trip.origin_stay_id).activity_type, StayById(trip.dest_stay_id).activity_type}

SameCounty(trip) ==
    StayById(trip.origin_stay_id).county = StayById(trip.dest_stay_id).county

StartOf(r) == GapPoint(db, r.start_id)

EndOf(r) == GapPoint(db, r.end_id)

\* C22: every synthetic point lies strictly between the two points of its
\* gap, and the i-th synthetic point of a gap is exactly i * 600 s after the
\* gap's start point (a fixed cadence of one point every 600 s).
C22_CadenceOf600Seconds ==
    stage = "gap" =>
        \A k \in 1..Len(db.synthetic) :
            LET r == db.synthetic[k]
            IN  /\ StartOf(r).dataTime < r.dataTime
                /\ r.dataTime < EndOf(r).dataTime
                /\ r.dataTime = StartOf(r).dataTime + 600 * r.interpolation_ratio[1]

\* C23: at every point of a gap-completion run, each inserted row is still
\* marked synthetic, has an interpolation source and names two observed
\* points as its gap, and (no UPDATE having failed) each observed point that
\* was in a processed batch is marked non-synthetic.
C23_SyntheticStaysSynthetic ==
    stage = "gap" =>
        /\ \A k \in 1..Len(db.synthetic) :
              /\ db.synthetic[k].is_synthetic = "1"
              /\ db.synthetic[k].synthetic_source
                    \in {"TRAIN_INTERPOLATION", "FLIGHT_INTERPOLATION"}
              /\ db.synthetic[k].start_id \in Ids
              /\ db.synthetic[k].end_id \in Ids
        /\ faults = 0 =>
              \A i \in Ids : hist.seen[i] > 0 => db.is_synthetic[i] = "0"

\* --------------------------------------------------------------- C24
NullRows(points) == {i \in Range(points) : store[i].pos = NullPos}

\* C24: when process_batch has returned, the batch counts exactly one failed
\* point per row with missing coordinates, every other point of the batch has
\* been written (transport-mode stage: its segment_id is set and committed),
\* and the task is not marked failed.
C24_OneFailurePerBadPoint ==
    pc = "progress" =>
        /\ batch_failed = Cardinality(NullRows(batch))
        /\ stage = "mode" =>
              \A i \in Range(batch) \ NullRows(batch) : durable.segment_id[i] # NoRef
        /\ db.status # "failed"

\* ------------------------------------------------------- C25, C26, C30
\* the first process_batch call of a run has returned: the segments table
\* holds the segments of this batch and nothing else
FirstBatchDone == stage = "mode" /\ pc = "progress" /\ processed = Len(batch)

\* positions in the batch of the first and last point of the k-th segment,
\* counted off by point_count
RECURSIVE SegFirst(_)
SegFirst(k) == IF k = 1 THEN 1 ELSE SegFirst(k - 1) + db.segments[k - 1].point_count

SegLast(k) == SegFirst(k) + db.segments[k].point_count - 1

\* what classify_point returned for the point at position p of the batch
ClassOf(p) == ClassifyPoint(batch[p], IF p > 1 THEN batch[p - 1] ELSE NoRef)

\* C25 as stated: a segment of two or more points carries the confidence and
\* the reason codes of its last classified point.
C25_ConfidenceOfLastPoint ==
    FirstBatchDone => \A k \in 1..Len(db.segments) :
        db.segments[k].point_count >= 2 =>
            /\ db.segments[k].confidence = ClassOf(SegLast(k)).confidence
            /\ db.segments[k].reason_codes = ClassOf(SegLast(k)).reason_codes

\* C25 amended: a segment of two or more points carries the confidence and
\* the reason codes of its first classified point, the one that opened it.
C25_ConfidenceOfFirstPoint ==
    FirstBatchDone => \A k \in 1..Len(db.segments) :
        db.segments[k].point_count >= 2 =>
            /\ db.segments[k].confidence = ClassOf(SegFirst(k)).confidence
            /\ db.segments[k].reason_codes = ClassOf(SegFirst(k)).reason_codes

\* C25 witness: a CAR segment of two points was closed whose first point is
\* CAR at 0.75 and whose last point is CAR at 0.70
C25_Witness ==
    /\ FirstBatchDone
    /\ \E k \in 1..Len(db.segments) :
          /\ db.segments[k].point_count >= 2
          /\ db.segments[k].mode = "CAR"
          /\ ClassOf(SegFirst(k)).confidence = 75
          /\ ClassOf(SegLast(k)).confidence = 70
          /\ db.segments[k].confidence = 75

\* the segment whose run holds position p of the batch
SegOf(p) == CHOOSE k \in 1..Len(db.segments) : SegFirst(k) <= p /\ p <= SegLast(k)

\* C26: after the commit of process_batch every point of the batch carries the
\* id of the segment that contains it and the mode classify_point gave to
\* that point, and no point outside the batch has been touched, whatever the
\* order of the ids relative to the timestamps.
C26_EveryPointWrittenBack ==
    FirstBatchDone =>
        /\ \A p \in 1..Len(batch) :
              /\ durable.segment_id[batch[p]] = db.segments[SegOf(p)].id
              /\ durable.mode[batch[p]] = ClassOf(p).mode
        /\ \A i \in Ids \ Range(batch) :
              durable.segment_id[i] = NoRef /\ durable.mode[i] = "NULL"

\* C30: the segments of one process_batch call partition the batch: they are
\* consecutive runs in batch order, their point counts add up to the batch
\* length, each is non-empty with start_time <= end_time, and adjacent
\* segments have different modes.
C30_SegmentsPartitionBatch ==
    FirstBatchDone =>
        LET segs == db.segments
        IN  /\ SumSeq([k \in 1..Len(segs) |-> segs[k].point_count]) = Len(batch)
            /\ \A k \in 1..Len(segs) :
                  /\ segs[k].point_count >= 1
                  /\ segs[k].start_point_id = batch[SegFirst(k)]
                  /\ segs[k].end_point_id = batch[SegLast(k)]
                  /\ segs[k].start_time = store[batch[SegFirst(k)]].dataTime
                  /\ segs[k].end_time = store[batch[SegLast(k)]].dataTime
                  /\ segs[k].start_time <= segs[k].end_time
                  /\ \A p \in SegFirst(k)..SegLast(k) : ClassOf(p).mode = segs[k].mode
            /\ \A k \in 1..(Len(segs) - 1) : segs[k].mode # segs[k + 1].mode

\* C30 witness: a batch of three points was cut into a segment of two points
\* followed by a segment of one point
C30_Witness ==
    /\ FirstBatchDone
    /\ Len(batch) = NPoints
    /\ Len(db.segments) = 2
    /\ db.segments[1].point_count = NPoints - 1
    /\ db.segments[2].point_count = 1

\* --------------------------------------------------------------- C27
\* the first process_batch call of a gap-completion run has returned and no
\* statement has raised: the inserted rows are those of this batch
FirstGapBatchDone ==
    stage = "gap" /\ pc = "progress" /\ processed = Len(batch) /\ batch_failed = 0

\* the step from position i to position i + 1 of the batch qualifies as a gap
Qualifies(i) ==
    LET a == store[batch[i]]
        b == store[batch[i + 1]]
    IN  /\ b.dataTime - a.dataTime > 3600
        /\ 36 * Dist(a.pos, b.pos) > 80 * 10 * (b.dataTime - a.dataTime)

\* the travel type the claim gives to the window around step i: average
\* altitude and average speed over the steps of the window (speeds in 1/100
\* km/h), provinces over its points
TravelTypeOf(i) ==
    LET lo     == Max2(1, i - 2)
        hi     == IF i + 3 <= Len(batch) THEN i + 3 ELSE Len(batch)
        n      == hi - lo
        speeds == SumSeq([k \in 1..n |->
                     GapSpeed(GapPoint(db, batch[lo + k - 1]), GapPoint(db, batch[lo + k]))])
        alts   == SumSeq([k \in 1..n |-> store[batch[lo + k]].altitude])
        provs  == {ProvinceOf(store[batch[k]].pos) : k \in lo..hi} \ {"NULL"}
    IN  IF alts > 1000 * n /\ speeds >= 200 * 100 * n /\ speeds <= 1000 * 100 * n
        THEN "FLIGHT"
        ELSE IF speeds >= 80 * 100 * n /\ speeds <= 350 * 100 * n /\ Cardinality(provs) > 1
        THEN "TRAIN"
        ELSE "None"

RowsOfStep(i) ==
    {k \in 1..Len(db.synthetic) : db.synthetic[k].start_id = batch[i]}

C28_BatchLoopTerminates ==
    /\ [][(pc = "process" /\ pc' = "progress") =>
            /\ processed < task.total_points
            /\ processed' > processed
            /\ processed' <= processed + batch_size]_vars
    /\ <>(pc = "done" /\ durable.status \in {"completed", "failed"})

\* C28 witness: a run has returned 'completed' in which process_batch
\* reported failures and a point, left unanalyzed, was in two batches
C28_Witness ==
    /\ pc = "done"
    /\ failed > 0
    /\ \E i \in Ids : hist.seen[i] >= 2
    /\ durable.status = "completed"

\* --------------------------------------------------------------- C29
\* C29: every progress report of a run is consistent: the processed count
\* written by update_progress is at most total_points and equals the number
\* of distinct points handled so far, progress_percent is within 0..100,
\* failed is at most processed, and the final summary's counts give a
\* success rate within [0,1].
C29_ProgressReportsConsistent ==
    stage \in BatchStages =>
        /\ db.processed_points <= task.total_points
        /\ db.progress_percent >= 0
        /\ db.progress_percent <= 100
        /\ db.failed_points <= db.processed_points
        /\ (pc = "loop" /\ processed > 0) =>
              db.processed_points = Cardinality({i \in Ids : hist.seen[i] > 0})
        /\ \A k \in 1..Len(db.result_summary) :
              /\ db.result_summary[k].failed >= 0
              /\ db.result_summary[k].failed <= db.result_summary[k].processed

====
